---- MODULE Spec2Model ----
(***************************************************************************)
(* KaajAI loan underwriting: the deterministic decision core, the memo    *)
(* agent around the external text-generation call, and the two routes      *)
(* that serve requests on one shared orchestrator.                         *)
(*                                                                         *)
(*   backend/agents/financial_analyzer.py   metrics and stability score    *)
(*   backend/agents/risk_assessor.py        risk flags and risk tier       *)
(*   backend/agents/memo_generator.py       recommendation, score, memo    *)
(*   backend/agents/orchestrator.py         the pipeline, the quick score  *)
(*   backend/api/schemas.py, routes.py      validation and responses       *)
(*                                                                         *)
(* Numbers.  Python floats are modelled as exact fixed-point values in     *)
(* hundredths: a DSCR of 1.25 is 125, a volatility of 0.40 is 40, a trend  *)
(* of -0.10 is -10, a cash flow of $12.50 is 1250.  Counts, ages and the   *)
(* two 0-100 scores are plain integers.  Sums that the code forms in       *)
(* floating point are formed exactly here, over a common denominator.      *)
(*                                                                         *)
(* Optional values.  A Python value that may be None is modelled as a      *)
(* sequence of length at most one: None is << >>, a present value v is     *)
(* << v >>.                                                                *)
(***************************************************************************)
EXTENDS Integers, Sequences, FiniteSets, TLC

VARIABLES
    pc,     \* "call": the function named by fn is about to run on args;
            \* "return": it has returned ret
    fn,     \* the function being called
    args,   \* its arguments, a record keyed by parameter name
    ret,    \* its return value (None until it returns)
    memo_generator,
            \* the MemoGeneratorAgent of the orchestrator that serves every
            \* request: api_key, model, client
    frames  \* the calls in progress on that orchestrator, one frame each:
            \* position, function, arguments, locals, return value

vars == <<pc, fn, args, ret, memo_generator, frames>>

(***************************************************************************)
(* Python built-ins                                                        *)
(***************************************************************************)
None == << >>

Some(v) == << v >>

min(a, b) == IF b < a THEN b ELSE a

max(a, b) == IF b > a THEN b ELSE a

abs(a) == IF a < 0 THEN 0 - a ELSE a

TwoDigits(n) == IF n < 10 THEN "0" \o ToString(n) ELSE ToString(n)

ThreeDigits(n) == IF n < 10 THEN "00" \o ToString(n)
                  ELSE IF n < 100 THEN "0" \o ToString(n)
                  ELSE ToString(n)

RECURSIVE Grouped(_)
\* the "," option of the format mini-language, for n >= 0
Grouped(n) == IF n < 1000 THEN ToString(n)
              ELSE Grouped(n \div 1000) \o "," \o ThreeDigits(n % 1000)

\* f"{x:.2f}" of a value in hundredths
Fmt2f(x) == (IF x < 0 THEN "-" ELSE "")
            \o ToString(abs(x) \div 100) \o "." \o TwoDigits(abs(x) % 100)

\* f"{x:,.2f}" of a value in hundredths
FmtGrouped2f(x) == (IF x < 0 THEN "-" ELSE "")
                   \o Grouped(abs(x) \div 100) \o "." \o TwoDigits(abs(x) % 100)

\* f"{x:.1%}" of a value in hundredths (x hundredths is x percent)
FmtPct1(x) == (IF x < 0 THEN "-" ELSE "") \o ToString(abs(x)) \o ".0%"

(***************************************************************************)
(* Bounds of the input spaces                                              *)
(***************************************************************************)
MaxFlags == 3

MaxDscr == 300

MaxStability == 200

MaxVolatility == 250

MaxAge == 12

MaxNsf == 7

MaxTrend == 1500

MaxLeverage == 200

MaxCashFlow == 123456789

Around(t) == {t - 1, t, t + 1}

Grid(lo, hi, step) == {x \in lo..hi : (x - lo) % step = 0}

RiskLevels == {"LOW", "MODERATE", "HIGH", "UNKNOWN"}

(***************************************************************************)
(* risk_assessor.py: the six risk checks.  Each returns Optional[Dict].    *)
(***************************************************************************)
check_low_dscr_boundary_included(dscr) ==
    IF dscr <= 125
    THEN Some([severity |-> "HIGH", flag |-> "LOW_DSCR",
               message |-> "DSCR of " \o Fmt2f(dscr)
                           \o " is below 1.25 minimum threshold"])
    ELSE None

check_low_dscr(dscr) ==
    IF dscr < 125
    THEN Some([severity |-> "HIGH", flag |-> "LOW_DSCR",
               message |-> "DSCR of " \o Fmt2f(dscr)
                           \o " is below 1.25 minimum threshold"])
    ELSE None

check_unstable_revenue(volatility) ==
    IF volatility > 40
    THEN Some([severity |-> "MEDIUM", flag |-> "UNSTABLE_REVENUE",
               message |-> "Revenue volatility of " \o FmtPct1(volatility)
                           \o " indicates unstable cash flow"])
    ELSE None

check_cash_flow_issues(nsf_fees) ==
    IF nsf_fees > 3
    THEN Some([severity |-> "HIGH", flag |-> "CASH_FLOW_ISSUES",
               message |-> ToString(nsf_fees)
                           \o " NSF fees indicate recurring cash flow problems"])
    ELSE None

check_high_leverage(debt_to_revenue) ==
    IF debt_to_revenue > 50
    THEN Some([severity |-> "MEDIUM", flag |-> "HIGH_LEVERAGE",
               message |-> "Debt-to-revenue ratio of " \o FmtPct1(debt_to_revenue)
                           \o " exceeds 50% threshold"])
    ELSE None

check_negative_cash_flow_medium_severity(avg_monthly_cash_flow) ==
    IF avg_monthly_cash_flow < 0
    THEN Some([severity |-> "MEDIUM", flag |-> "NEGATIVE_CASH_FLOW",
               message |-> "Negative average monthly cash flow of $"
                           \o FmtGrouped2f(avg_monthly_cash_flow)])
    ELSE None

check_negative_cash_flow(avg_monthly_cash_flow) ==
    IF avg_monthly_cash_flow < 0
    THEN Some([severity |-> "HIGH", flag |-> "NEGATIVE_CASH_FLOW",
               message |-> "Negative average monthly cash flow of $"
                           \o FmtGrouped2f(avg_monthly_cash_flow)])
    ELSE None

check_declining_revenue(revenue_trend) ==
    IF revenue_trend < -10
    THEN Some([severity |-> "MEDIUM", flag |-> "DECLINING_REVENUE",
               message |-> "Revenue declining by " \o FmtPct1(abs(revenue_trend))])
    ELSE None

(***************************************************************************)
(* risk_assessor.py: calculate_risk_level                                  *)
(***************************************************************************)
\* sum(1 for f in flags if f["severity"] == severity)
severity_count(flags, severity) ==
    Len(SelectSeq(flags, LAMBDA f : f.severity = severity))

calculate_risk_level_medium_off_by_one(flags) ==
    IF flags = << >> THEN "LOW"
    ELSE LET high_count == severity_count(flags, "HIGH")
             medium_count == severity_count(flags, "MEDIUM")
         IN  IF high_count > 0 THEN "HIGH"
             ELSE IF medium_count > 3 THEN "HIGH"
             ELSE IF medium_count >= 1 THEN "MODERATE"
             ELSE "LOW"

calculate_risk_level_one_medium_is_low(flags) ==
    IF flags = << >> THEN "LOW"
    ELSE LET high_count == severity_count(flags, "HIGH")
             medium_count == severity_count(flags, "MEDIUM")
         IN  IF high_count > 0 THEN "HIGH"
             ELSE IF medium_count >= 3 THEN "HIGH"
             ELSE IF medium_count >= 2 THEN "MODERATE"
             ELSE "LOW"

calculate_risk_level(flags) ==
    IF flags = << >> THEN "LOW"
    ELSE LET high_count == severity_count(flags, "HIGH")
             medium_count == severity_count(flags, "MEDIUM")
         IN  IF high_count > 0 THEN "HIGH"
             ELSE IF medium_count >= 3 THEN "HIGH"
             ELSE IF medium_count >= 1 THEN "MODERATE"
             ELSE "LOW"

(***************************************************************************)
(* int(x) of a value in hundredths: truncation toward zero                 *)
(***************************************************************************)
int(x) == IF x >= 0 THEN x \div 100 ELSE 0 - ((0 - x) \div 100)

(***************************************************************************)
(* financial_analyzer.py: calculate_stability_score                        *)
(* Component scores are in hundredths of a point.                          *)
(***************************************************************************)
stability_volatility_score(revenue_volatility) ==
    max(0, (100 - min(revenue_volatility, 100)) * 40)

stability_age_score(business_age_years) ==
    min(business_age_years, 10) * 300

stability_nsf_score(nsf_fees_count) ==
    IF nsf_fees_count = 0 THEN 3000
    ELSE IF nsf_fees_count <= 2 THEN 2000
    ELSE IF nsf_fees_count <= 5 THEN 1000
    ELSE 0

\* final_score = base_score + trend_bonus
stability_final_score(revenue_volatility, business_age_years, nsf_fees_count, revenue_trend) ==
    LET base_score == stability_volatility_score(revenue_volatility)
                      + stability_age_score(business_age_years)
                      + stability_nsf_score(nsf_fees_count)
        trend_bonus == revenue_trend * 10
    IN  base_score + trend_bonus

calculate_stability_score_floor_only(revenue_volatility, business_age_years, nsf_fees_count, revenue_trend) ==
    int(max(0, stability_final_score(revenue_volatility, business_age_years,
                                     nsf_fees_count, revenue_trend)))

calculate_stability_score(revenue_volatility, business_age_years, nsf_fees_count, revenue_trend) ==
    int(max(0, min(10000,
        stability_final_score(revenue_volatility, business_age_years,
                              nsf_fees_count, revenue_trend))))

(***************************************************************************)
(* memo_generator.py: determine_recommendation                             *)
(***************************************************************************)
high_severity_flags(flags) == SelectSeq(flags, LAMBDA f : f.severity = "HIGH")

\* first DECLINE rule
is_decline_critical(risk_level, flags) ==
    risk_level = "HIGH" /\ Len(high_severity_flags(flags)) >= 2

is_decline_dscr_at_minimum(dscr) == dscr <= 100

\* second DECLINE rule
is_decline_dscr(dscr) == dscr < 100

is_conditional_moderate_only(risk_level) == risk_level = "MODERATE"

\* APPROVE_WITH_CONDITIONS rule
is_conditional(risk_level) == risk_level = "HIGH" \/ risk_level = "MODERATE"

critical_decline_reasons(dscr) ==
    << Some("Multiple critical risk factors identified"),
       IF dscr < 100
       THEN Some("DSCR of " \o Fmt2f(dscr)
                 \o " indicates insufficient debt service capacity")
       ELSE None,
       Some("High volatility or cash flow concerns") >>

dscr_decline_reasons(dscr) ==
    << Some("DSCR of " \o Fmt2f(dscr) \o " is below 1.0 minimum threshold"),
       Some("Insufficient cash flow to service debt") >>

\* any(f.get("flag") == name for f in flags)
has_flag(flags, name) == \E i \in 1..Len(flags) : flags[i].flag = name

\* conditions.append(text) when cond holds
append_if(cond, text) == IF cond THEN << text >> ELSE << >>

approval_conditions_no_fallback(dscr, stability_score, flags) ==
       append_if(dscr < 135, "Require personal guarantee from business owner")
    \o append_if(stability_score < 70, "Require quarterly financial reporting")
    \o append_if(has_flag(flags, "UNSTABLE_REVENUE"),
                 "Monitor cash flow closely for first 12 months")
    \o append_if(has_flag(flags, "HIGH_LEVERAGE"),
                 "Reduce loan amount to 80% of request")
    \o append_if(has_flag(flags, "CASH_FLOW_ISSUES"),
                 "Establish cash reserve requirement of 3 months expenses")

approval_conditions_leverage_first(dscr, stability_score, flags) ==
    LET conditions ==
               append_if(dscr < 135, "Require personal guarantee from business owner")
            \o append_if(stability_score < 70, "Require quarterly financial reporting")
            \o append_if(has_flag(flags, "HIGH_LEVERAGE"),
                         "Reduce loan amount to 80% of request")
            \o append_if(has_flag(flags, "UNSTABLE_REVENUE"),
                         "Monitor cash flow closely for first 12 months")
            \o append_if(has_flag(flags, "CASH_FLOW_ISSUES"),
                         "Establish cash reserve requirement of 3 months expenses")
    IN  IF conditions = << >>
        THEN << "Standard terms with enhanced monitoring" >>
        ELSE conditions

approval_conditions(dscr, stability_score, flags) ==
    LET conditions ==
               append_if(dscr < 135, "Require personal guarantee from business owner")
            \o append_if(stability_score < 70, "Require quarterly financial reporting")
            \o append_if(has_flag(flags, "UNSTABLE_REVENUE"),
                         "Monitor cash flow closely for first 12 months")
            \o append_if(has_flag(flags, "HIGH_LEVERAGE"),
                         "Reduce loan amount to 80% of request")
            \o append_if(has_flag(flags, "CASH_FLOW_ISSUES"),
                         "Establish cash reserve requirement of 3 months expenses")
    IN  IF conditions = << >>
        THEN << "Standard terms with enhanced monitoring" >>
        ELSE conditions

determine_recommendation(risk_level, dscr, stability_score, flags) ==
    IF is_decline_critical(risk_level, flags)
    THEN [decision |-> "DECLINE",
          reasons |-> critical_decline_reasons(dscr),
          conditions |-> << >>]
    ELSE IF is_decline_dscr(dscr)
    THEN [decision |-> "DECLINE",
          reasons |-> dscr_decline_reasons(dscr),
          conditions |-> << >>]
    ELSE IF is_conditional(risk_level)
    THEN [decision |-> "APPROVE_WITH_CONDITIONS",
          conditions |-> approval_conditions(dscr, stability_score, flags),
          reasons |-> << >>]
    ELSE [decision |-> "APPROVE",
          conditions |-> << >>,
          reasons |-> << >>]

(***************************************************************************)
(* memo_generator.py: calculate_underwriting_score                         *)
(* Component scores are in hundredths of a point.                          *)
(***************************************************************************)
\* risk_scores.get(risk_level, 10)
underwriting_risk_score(risk_level) ==
    IF risk_level = "LOW" THEN 4000
    ELSE IF risk_level = "MODERATE" THEN 2500
    ELSE IF risk_level = "HIGH" THEN 1000
    ELSE 1000

underwriting_dscr_score_strong_below_adequate(dscr) ==
    IF dscr >= 175 THEN 3000
    ELSE IF dscr >= 150 THEN 2000
    ELSE IF dscr >= 125 THEN 2500
    ELSE IF dscr >= 100 THEN 1000
    ELSE 0

underwriting_dscr_score(dscr) ==
    IF dscr >= 175 THEN 3000
    ELSE IF dscr >= 150 THEN 2500
    ELSE IF dscr >= 125 THEN 2000
    ELSE IF dscr >= 100 THEN 1000
    ELSE 0

underwriting_stability_contribution(stability_score) == stability_score * 20

underwriting_volatility_score(revenue_volatility) ==
    max(0, (100 - min(revenue_volatility, 100)) * 10)

underwriting_total(risk_level, dscr, stability_score, revenue_volatility) ==
    underwriting_risk_score(risk_level)
    + underwriting_dscr_score(dscr)
    + underwriting_stability_contribution(stability_score)
    + underwriting_volatility_score(revenue_volatility)

calculate_underwriting_score_cap_only(risk_level, dscr, stability_score, revenue_volatility) ==
    int(min(10000, underwriting_total(risk_level, dscr, stability_score,
                                      revenue_volatility)))

calculate_underwriting_score(risk_level, dscr, stability_score, revenue_volatility) ==
    int(max(0, min(10000,
        underwriting_total(risk_level, dscr, stability_score,
                           revenue_volatility))))

(***************************************************************************)
(* Input spaces.  Values are chosen on and next to every threshold the     *)
(* code compares against, plus out-of-range extremes set by the bounds.    *)
(***************************************************************************)
\* flag dicts as the six checks emit them (severity and identifier)
FlagUniverse ==
    { [severity |-> "HIGH",   flag |-> "LOW_DSCR"],
      [severity |-> "MEDIUM", flag |-> "UNSTABLE_REVENUE"],
      [severity |-> "HIGH",   flag |-> "CASH_FLOW_ISSUES"],
      [severity |-> "MEDIUM", flag |-> "HIGH_LEVERAGE"],
      [severity |-> "HIGH",   flag |-> "NEGATIVE_CASH_FLOW"],
      [severity |-> "MEDIUM", flag |-> "DECLINING_REVENUE"] }

\* a flag dict whose severity is neither HIGH nor MEDIUM
OtherFlag == [severity |-> "LOW", flag |-> "OTHER"]

FlagLists(universe) == UNION { [1..n -> universe] : n \in 0..MaxFlags }

DscrInputs ==
    {0 - MaxDscr, 0, MaxDscr} \cup Around(100) \cup Around(125) \cup Around(135)
    \cup Around(150) \cup Around(175)

StabilityInputs ==
    {0 - MaxStability, -51, -50, -49, -1, 101, MaxStability}
    \cup Grid(0, 100, 7) \cup Around(70) \cup {100}

\* the stability scores calculate_stability_score can return, around the
\* one threshold determine_recommendation reads
RecommendationStabilityInputs == {0, 100} \cup Around(70)

VolatilityInputs ==
    {0 - MaxVolatility, -1, 101, MaxVolatility}
    \cup Grid(0, 100, 9) \cup Around(40) \cup {100}

InitCall(name, argSpace) ==
    /\ pc = "call"
    /\ fn = name
    /\ args \in argSpace
    /\ ret = None
    /\ memo_generator = None
    /\ frames = << >>

(***************************************************************************)
(* SpecRecommendation: determine_recommendation on every input             *)
(***************************************************************************)
InitRecommendation ==
    InitCall("determine_recommendation",
             [risk_level : RiskLevels,
              dscr : DscrInputs,
              stability_score : RecommendationStabilityInputs,
              flags : FlagLists(FlagUniverse)])

DetermineRecommendation ==
    /\ pc = "call"
    /\ fn = "determine_recommendation"
    /\ ret' = determine_recommendation(args.risk_level, args.dscr,
              args.stability_score, args.flags)
    /\ pc' = "return"
    /\ UNCHANGED <<fn, args, memo_generator, frames>>

NextRecommendation == DetermineRecommendation

SpecRecommendation == InitRecommendation /\ [][NextRecommendation]_vars

(***************************************************************************)
(* SpecScores: calculate_underwriting_score and calculate_stability_score  *)
(* on every input                                                          *)
(***************************************************************************)
AgeInputs == (0 - MaxAge)..MaxAge

NsfInputs == -1..MaxNsf

TrendInputs ==
    {0 - MaxTrend, -100, -50, 100, MaxTrend} \cup Around(-10) \cup Around(0)
    \cup Around(15)

InitUnderwritingScore ==
    InitCall("calculate_underwriting_score",
             [risk_level : RiskLevels,
              dscr : DscrInputs,
              stability_score : StabilityInputs,
              revenue_volatility : VolatilityInputs])

InitStabilityScore ==
    InitCall("calculate_stability_score",
             [revenue_volatility : VolatilityInputs,
              business_age_years : AgeInputs,
              nsf_fees_count : NsfInputs,
              revenue_trend : TrendInputs])

InitScores == InitUnderwritingScore \/ InitStabilityScore

CalculateUnderwritingScore ==
    /\ pc = "call"
    /\ fn = "calculate_underwriting_score"
    /\ ret' = calculate_underwriting_score(args.risk_level, args.dscr,
              args.stability_score,
              args.revenue_volatility)
    /\ pc' = "return"
    /\ UNCHANGED <<fn, args, memo_generator, frames>>

CalculateStabilityScore ==
    /\ pc = "call"
    /\ fn = "calculate_stability_score"
    /\ ret' = calculate_stability_score(args.revenue_volatility,
              args.business_age_years,
              args.nsf_fees_count, args.revenue_trend)
    /\ pc' = "return"
    /\ UNCHANGED <<fn, args, memo_generator, frames>>

NextScores == CalculateUnderwritingScore \/ CalculateStabilityScore

SpecScores == InitScores /\ [][NextScores]_vars

(***************************************************************************)
(* SpecRisk: the six checks and calculate_risk_level on every input        *)
(***************************************************************************)
CashFlowInputs ==
    {0 - MaxCashFlow, -100000, -99999, 100000, MaxCashFlow} \cup Around(0)

InitRisk ==
    \/ InitCall("check_low_dscr", [dscr : (0 - MaxDscr)..MaxDscr])
    \/ InitCall("check_unstable_revenue",
                [volatility : (0 - MaxVolatility)..MaxVolatility])
    \/ InitCall("check_cash_flow_issues", [nsf_fees : NsfInputs])
    \/ InitCall("check_high_leverage",
                [debt_to_revenue : (0 - MaxLeverage)..MaxLeverage])
    \/ InitCall("check_negative_cash_flow",
                [avg_monthly_cash_flow : CashFlowInputs])
    \/ InitCall("check_declining_revenue",
                [revenue_trend : (0 - MaxTrend)..MaxTrend])
    \/ InitCall("calculate_risk_level",
                [flags : FlagLists(FlagUniverse \cup {OtherFlag})])

CheckLowDscr ==
    /\ pc = "call"
    /\ fn = "check_low_dscr"
    /\ ret' = check_low_dscr(args.dscr)
    /\ pc' = "return"
    /\ UNCHANGED <<fn, args, memo_generator, frames>>

CheckUnstableRevenue ==
    /\ pc = "call"
    /\ fn = "check_unstable_revenue"
    /\ ret' = check_unstable_revenue(args.volatility)
    /\ pc' = "return"
    /\ UNCHANGED <<fn, args, memo_generator, frames>>

CheckCashFlowIssues ==
    /\ pc = "call"
    /\ fn = "check_cash_flow_issues"
    /\ ret' = check_cash_flow_issues(args.nsf_fees)
    /\ pc' = "return"
    /\ UNCHANGED <<fn, args, memo_generator, frames>>

CheckHighLeverage ==
    /\ pc = "call"
    /\ fn = "check_high_leverage"
    /\ ret' = check_high_leverage(args.debt_to_revenue)
    /\ pc' = "return"
    /\ UNCHANGED <<fn, args, memo_generator, frames>>

CheckNegativeCashFlow ==
    /\ pc = "call"
    /\ fn = "check_negative_cash_flow"
    /\ ret' = check_negative_cash_flow(args.avg_monthly_cash_flow)
    /\ pc' = "return"
    /\ UNCHANGED <<fn, args, memo_generator, frames>>

CheckDecliningRevenue ==
    /\ pc = "call"
    /\ fn = "check_declining_revenue"
    /\ ret' = check_declining_revenue(args.revenue_trend)
    /\ pc' = "return"
    /\ UNCHANGED <<fn, args, memo_generator, frames>>

CalculateRiskLevel ==
    /\ pc = "call"
    /\ fn = "calculate_risk_level"
    /\ ret' = calculate_risk_level(args.flags)
    /\ pc' = "return"
    /\ UNCHANGED <<fn, args, memo_generator, frames>>

NextRisk ==
    \/ CheckLowDscr
    \/ CheckUnstableRevenue
    \/ CheckCashFlowIssues
    \/ CheckHighLeverage
    \/ CheckNegativeCashFlow
    \/ CheckDecliningRevenue
    \/ CalculateRiskLevel

SpecRisk == InitRisk /\ [][NextRisk]_vars

(***************************************************************************)
(* risk_assessor.py: RiskAssessorAgent.assess.  A Python dict is a record; *)
(* a key the dict lacks is a field the record lacks.                       *)
(***************************************************************************)
\* dict.get(key, default)
get(d, key, default) == IF key \in DOMAIN d THEN d[key] ELSE default

\* "flag = check(...); if flag: flags.append(flag)" run for the six checks
risk_flags_leverage_before_nsf(metrics, nsf_fees) ==
    check_low_dscr(get(metrics, "dscr", 0))
    \o check_unstable_revenue(get(metrics, "revenue_volatility", 0))
    \o check_high_leverage(get(metrics, "debt_to_revenue", 0))
    \o check_cash_flow_issues(nsf_fees)
    \o check_negative_cash_flow(get(metrics, "avg_monthly_cash_flow", 0))
    \o check_declining_revenue(get(metrics, "revenue_trend", 0))

risk_flags(metrics, nsf_fees) ==
    check_low_dscr(get(metrics, "dscr", 0))
    \o check_unstable_revenue(get(metrics, "revenue_volatility", 0))
    \o check_cash_flow_issues(nsf_fees)
    \o check_high_leverage(get(metrics, "debt_to_revenue", 0))
    \o check_negative_cash_flow(get(metrics, "avg_monthly_cash_flow", 0))
    \o check_declining_revenue(get(metrics, "revenue_trend", 0))

detect_positive_signals_every_tier(metrics, nsf_fees) ==
    append_if(get(metrics, "avg_monthly_cash_flow", 0) > 1000000,
              "Strong cash flow reserves")
    \o append_if(get(metrics, "dscr", 0) >= 175, "Excellent DSCR")
    \o append_if(get(metrics, "dscr", 0) >= 150, "Strong DSCR")
    \o append_if(get(metrics, "dscr", 0) >= 125, "Adequate DSCR")
    \o append_if(get(metrics, "revenue_volatility", 100) < 20,
                 "Low revenue volatility")
    \o (IF get(metrics, "stability_score", 0) >= 80
        THEN << "High business stability" >>
        ELSE IF get(metrics, "stability_score", 0) >= 70
        THEN << "Good business stability" >>
        ELSE << >>)
    \o (IF get(metrics, "revenue_trend", 0) > 15
        THEN << "Strong revenue growth" >>
        ELSE IF get(metrics, "revenue_trend", 0) > 0
        THEN << "Growing revenue" >>
        ELSE << >>)
    \o append_if(nsf_fees = 0, "Clean payment history")
    \o append_if(get(metrics, "debt_to_revenue", 100) < 30,
                 "Low financial leverage")

detect_positive_signals(metrics, nsf_fees) ==
    append_if(get(metrics, "avg_monthly_cash_flow", 0) > 1000000,
              "Strong cash flow reserves")
    \o (IF get(metrics, "dscr", 0) >= 175 THEN << "Excellent DSCR" >>
        ELSE IF get(metrics, "dscr", 0) >= 150 THEN << "Strong DSCR" >>
        ELSE IF get(metrics, "dscr", 0) >= 125 THEN << "Adequate DSCR" >>
        ELSE << >>)
    \o append_if(get(metrics, "revenue_volatility", 100) < 20,
                 "Low revenue volatility")
    \o (IF get(metrics, "stability_score", 0) >= 80
        THEN << "High business stability" >>
        ELSE IF get(metrics, "stability_score", 0) >= 70
        THEN << "Good business stability" >>
        ELSE << >>)
    \o (IF get(metrics, "revenue_trend", 0) > 15
        THEN << "Strong revenue growth" >>
        ELSE IF get(metrics, "revenue_trend", 0) > 0
        THEN << "Growing revenue" >>
        ELSE << >>)
    \o append_if(nsf_fees = 0, "Clean payment history")
    \o append_if(get(metrics, "debt_to_revenue", 100) < 30,
                 "Low financial leverage")

assess(financial_metrics, extracted_data) ==
    LET metrics == get(financial_metrics, "metrics", << >>)
        bank_data == get(extracted_data, "bank_data", << >>)
        nsf_fees == get(bank_data, "nsf_fees", 0)
        flags == risk_flags(metrics, nsf_fees)
    IN  [risk_assessment |->
            [risk_level |-> calculate_risk_level(flags),
             flags |-> flags,
             positive_signals |-> detect_positive_signals(metrics, nsf_fees)]]

(***************************************************************************)
(* SpecAssess: assess on metrics around every threshold, and on dicts      *)
(* that lack the keys                                                      *)
(***************************************************************************)
MetricsInputs ==
    [dscr : {99} \cup Around(125) \cup {175},
     revenue_volatility : {10} \cup Around(40),
     debt_to_revenue : {20} \cup Around(50),
     avg_monthly_cash_flow : Around(0) \cup {1000001},
     revenue_trend : Around(-10) \cup {16},
     stability_score : {60, 85}]

FinancialMetricsInputs ==
    {<< >>} \cup [metrics : MetricsInputs \cup {<< >>}]

ExtractedDataInputs ==
    {<< >>} \cup [bank_data : {<< >>} \cup [nsf_fees : {0, 3, 4}]]

InitAssess ==
    InitCall("assess", [financial_metrics : FinancialMetricsInputs,
                        extracted_data : ExtractedDataInputs])

Assess ==
    /\ pc = "call"
    /\ fn = "assess"
    /\ ret' = assess(args.financial_metrics, args.extracted_data)
    /\ pc' = "return"
    /\ UNCHANGED <<fn, args, memo_generator, frames>>

NextAssess == Assess

SpecAssess == InitAssess /\ [][NextAssess]_vars

(***************************************************************************)
(* Exact arithmetic for financial_analyzer.py.  Money is in cents, ratios  *)
(* and rates in hundredths.  A quotient the code forms in floating point   *)
(* is kept here as numerator and denominator until the code rounds it.     *)
(***************************************************************************)
\* math.gcd, by Euclid's algorithm
gcd(a, b) ==
    LET euclid[p \in Int \X Int] ==
            IF p[2] = 0 THEN abs(p[1]) ELSE euclid[<<p[2], p[1] % abs(p[2])>>]
    IN  euclid[<<a, b>>]

\* sum(xs)
sum(xs) ==
    LET partial[i \in 0..Len(xs)] ==
            IF i = 0 THEN 0 ELSE partial[i - 1] + xs[i]
    IN  partial[Len(xs)]

\* round(num / den) to the nearest integer.  A float that lies exactly
\* half way is rounded to the even neighbour; whether num / den, computed in
\* binary floating point, lies exactly half way is decided by its binary
\* value, so the input sets keep away from decimal ties.
round_half_even(num, den) ==
    LET n == IF den < 0 THEN 0 - num ELSE num
        d == abs(den)
        q == n \div d
        r == n % d
    IN  IF 2 * r < d THEN q
        ELSE IF 2 * r > d THEN q + 1
        ELSE IF q % 2 = 0 THEN q ELSE q + 1

\* floor instead of round: 0.006 becomes 0.00
round_down(num, den) ==
    LET n == IF den < 0 THEN 0 - num ELSE num
    IN  n \div abs(den)

\* num / den as a whole number of hundredths; only defined when it is one
exact_hundredths(num, den) ==
    CHOOSE v \in {(100 * num) \div den} : v * den = 100 * num

\* the largest v in lo..hi with v * v <= x, by bisection
isqrt_between(lo, hi, x) ==
    LET bisect[p \in Nat \X Nat] ==
            IF p[1] = p[2] THEN p[1]
            ELSE IF ((p[1] + p[2] + 1) \div 2) * ((p[1] + p[2] + 1) \div 2) <= x
            THEN bisect[<<(p[1] + p[2] + 1) \div 2, p[2]>>]
            ELSE bisect[<<p[1], (p[1] + p[2] + 1) \div 2 - 1>>]
    IN  bisect[<<lo, hi>>]

\* the square root of x; only defined when x is a perfect square
exact_sqrt(x) ==
    CHOOSE v \in {isqrt_between(0, 40000, x)} : v * v = x

(***************************************************************************)
(* financial_analyzer.py: the metric functions                             *)
(***************************************************************************)
calculate_avg_monthly_revenue(monthly_deposits) ==
    IF monthly_deposits = << >> THEN 0
    ELSE round_half_even(sum(monthly_deposits), Len(monthly_deposits))

\* the greatest common divisor of the values of a list
gcd_all(xs) ==
    LET partial[i \in 0..Len(xs)] ==
            IF i = 0 THEN 0 ELSE gcd(xs[i], partial[i - 1])
    IN  partial[Len(xs)]

\* std(ddof=1) / mean, rounded to 4 decimals.  With n values of sum S and
\* Q = n * sum(x^2) - S^2 the square of the quotient is n*Q / ((n-1)*S^2),
\* whatever the unit of the values.  Only defined for series whose
\* volatility is a whole number of hundredths, which rounding to 4 decimals
\* leaves alone.
calculate_revenue_volatility(monthly_revenue) ==
    IF Len(monthly_revenue) <= 1 THEN 0
    ELSE IF sum(monthly_revenue) = 0 THEN 0
    ELSE LET scaled[g \in Nat] ==
                 [i \in DOMAIN monthly_revenue |-> monthly_revenue[i] \div g]
             squares[ys \in Seq(Int)] == [i \in DOMAIN ys |-> ys[i] * ys[i]]
             quotient[ys \in Seq(Int)] ==
                 LET n == Len(ys)
                     S == sum(ys)
                     Q == n * sum(squares[ys]) - S * S
                     square == exact_hundredths(100 * n * Q, (n - 1) * S * S)
                 IN  IF S > 0 THEN exact_sqrt(square)
                     ELSE 0 - exact_sqrt(square)
         IN  quotient[scaled[gcd_all(monthly_revenue)]]

\* math.pow(1 + annual_interest_rate / 12, term_months) raises OverflowError
\* ("math range error") when the power exceeds the largest double, just
\* under 2^1024.  With r the monthly rate, 2^(r*n) <= (1+r)^n <= e^(r*n) for
\* 0 < r <= 1, so the power overflows when r*n >= 1024 and does not when
\* r*n < 709; the input sets keep away from the values in between.
\* annual_interest_rate is in hundredths, so r = annual_interest_rate / 1200.
pow_raises(annual_interest_rate, term_months) ==
    /\ annual_interest_rate > 0
    /\ term_months > 0
    /\ annual_interest_rate * term_months >= 1024 * 1200

\* base ** exponent for a whole exponent that is not negative
power(base, exponent) ==
    LET product[i \in 0..exponent] ==
            IF i = 0 THEN 1 ELSE base * product[i - 1]
    IN  product[exponent]

\* the exception calculate_monthly_payment raises, or None
monthly_payment_exception(loan_amount, annual_interest_rate, term_months) ==
    IF loan_amount = 0 \/ term_months = 0 THEN None
    ELSE IF annual_interest_rate = 0 THEN None
    ELSE IF pow_raises(annual_interest_rate, term_months)
    THEN Some("math range error")
    ELSE None

calculate_monthly_payment_rounded_down(loan_amount, annual_interest_rate, term_months) ==
    IF loan_amount = 0 \/ term_months = 0 THEN 0
    ELSE IF annual_interest_rate = 0
    THEN round_down(loan_amount, term_months)
    ELSE LET g == gcd(annual_interest_rate, 1200)
             a == annual_interest_rate \div g
             b == 1200 \div g
             numerator == a * power(a + b, term_months)
             denominator == b * (power(a + b, term_months) - power(b, term_months))
         IN  round_down(loan_amount * numerator, denominator)

\* the value calculate_monthly_payment returns when it raises nothing, in
\* cents.  The monthly rate is a / b in lowest terms, so
\* (1 + a/b)^n = (a+b)^n / b^n.
calculate_monthly_payment(loan_amount, annual_interest_rate, term_months) ==
    IF loan_amount = 0 \/ term_months = 0 THEN 0
    ELSE IF annual_interest_rate = 0
    THEN round_half_even(loan_amount, term_months)
    ELSE LET g == gcd(annual_interest_rate, 1200)
             a == annual_interest_rate \div g
             b == 1200 \div g
             numerator == a * power(a + b, term_months)
             denominator == b * (power(a + b, term_months) - power(b, term_months))
         IN  round_half_even(loan_amount * numerator, denominator)

calculate_debt_to_revenue_ratio(total_debt, annual_revenue) ==
    IF annual_revenue = 0 THEN 0
    ELSE round_half_even(100 * total_debt, annual_revenue)

(***************************************************************************)
(* financial_analyzer.py: FinancialAnalyzerAgent.analyze                   *)
(***************************************************************************)
\* the exception analyze raises, or None: the two payment calculations are
\* the only statements of analyze that can raise on well-typed input
analyze_exception(extracted_data, loan_request) ==
    LET loan_amount == get(loan_request, "loan_amount", 0)
        annual_interest_rate == get(loan_request, "annual_interest_rate", 8)
        term_months == get(loan_request, "term_months", 60)
        existing_debt == get(extracted_data, "existing_debt", 0)
        new_loan == monthly_payment_exception(loan_amount, annual_interest_rate,
                                              term_months)
    IN  IF new_loan # None THEN new_loan
        ELSE monthly_payment_exception(existing_debt, annual_interest_rate,
                                       term_months)

analyze_new_loan_payment_only(extracted_data, loan_request) ==
    LET bank_data == get(extracted_data, "bank_data", << >>)
        monthly_deposits == get(bank_data, "monthly_deposits", << >>)
        monthly_withdrawals == get(bank_data, "monthly_withdrawals", << >>)
        nsf_fees == get(bank_data, "nsf_fees", 0)
        tax_data == get(extracted_data, "tax_data", << >>)
        annual_revenue == get(tax_data, "gross_revenue", 0)
        net_income == get(tax_data, "net_income", 0)
        loan_amount == get(loan_request, "loan_amount", 0)
        annual_interest_rate == get(loan_request, "annual_interest_rate", 8)
        term_months == get(loan_request, "term_months", 60)
        business_age_years == get(loan_request, "business_age_years", 0)
        existing_debt == get(extracted_data, "existing_debt", 0)
        avg_monthly_revenue == calculate_avg_monthly_revenue(monthly_deposits)
        revenue_volatility == calculate_revenue_volatility(monthly_deposits)
        \* deposits_avg - withdrawals_avg = cash_flow_num / cash_flow_den
        both == monthly_deposits # << >> /\ monthly_withdrawals # << >>
        cash_flow_num == IF both
                         THEN sum(monthly_deposits) * Len(monthly_withdrawals)
                              - sum(monthly_withdrawals) * Len(monthly_deposits)
                         ELSE 0
        cash_flow_den == IF both
                         THEN Len(monthly_deposits) * Len(monthly_withdrawals)
                         ELSE 1
        new_loan_payment ==
            calculate_monthly_payment(loan_amount, annual_interest_rate,
                                      term_months)
        existing_debt_payment ==
            calculate_monthly_payment(existing_debt, annual_interest_rate,
                                      term_months)
        total_monthly_payment == new_loan_payment
        dscr == IF total_monthly_payment = 0 THEN 0
                ELSE round_half_even(100 * cash_flow_num,
                                     cash_flow_den * total_monthly_payment)
        total_debt == existing_debt + loan_amount
        revenue_for_ratio == IF annual_revenue > 0 THEN annual_revenue
                             ELSE avg_monthly_revenue * 12
        debt_to_revenue ==
            calculate_debt_to_revenue_ratio(total_debt, revenue_for_ratio)
        \* sum(monthly_deposits[:6]) / 6 and sum(monthly_deposits[6:12]) / 6;
        \* the trend is only defined here when it is a whole number of
        \* hundredths, which round(revenue_trend, 4) leaves alone
        first_half == sum(SubSeq(monthly_deposits, 1, 6))
        second_half == sum(SubSeq(monthly_deposits, 7, 12))
        revenue_trend == IF Len(monthly_deposits) >= 12 /\ first_half > 0
                         THEN exact_hundredths(second_half - first_half,
                                               first_half)
                         ELSE 0
        stability_score ==
            calculate_stability_score(revenue_volatility, business_age_years,
                                      nsf_fees, revenue_trend)
    IN  [metrics |->
            [avg_monthly_revenue |-> avg_monthly_revenue,
             revenue_volatility |-> revenue_volatility,
             avg_monthly_cash_flow |-> round_half_even(cash_flow_num,
                                                       cash_flow_den),
             dscr |-> dscr,
             debt_to_revenue |-> debt_to_revenue,
             annual_revenue |-> revenue_for_ratio,
             net_income |-> net_income,
             stability_score |-> stability_score,
             total_debt |-> total_debt,
             revenue_trend |-> revenue_trend]]

\* the dict analyze returns when it raises nothing
analyze(extracted_data, loan_request) ==
    LET bank_data == get(extracted_data, "bank_data", << >>)
        monthly_deposits == get(bank_data, "monthly_deposits", << >>)
        monthly_withdrawals == get(bank_data, "monthly_withdrawals", << >>)
        nsf_fees == get(bank_data, "nsf_fees", 0)
        tax_data == get(extracted_data, "tax_data", << >>)
        annual_revenue == get(tax_data, "gross_revenue", 0)
        net_income == get(tax_data, "net_income", 0)
        loan_amount == get(loan_request, "loan_amount", 0)
        annual_interest_rate == get(loan_request, "annual_interest_rate", 8)
        term_months == get(loan_request, "term_months", 60)
        business_age_years == get(loan_request, "business_age_years", 0)
        existing_debt == get(extracted_data, "existing_debt", 0)
        avg_monthly_revenue == calculate_avg_monthly_revenue(monthly_deposits)
        revenue_volatility == calculate_revenue_volatility(monthly_deposits)
        \* deposits_avg - withdrawals_avg = cash_flow_num / cash_flow_den
        both == monthly_deposits # << >> /\ monthly_withdrawals # << >>
        cash_flow_num == IF both
                         THEN sum(monthly_deposits) * Len(monthly_withdrawals)
                              - sum(monthly_withdrawals) * Len(monthly_deposits)
                         ELSE 0
        cash_flow_den == IF both
                         THEN Len(monthly_deposits) * Len(monthly_withdrawals)
                         ELSE 1
        new_loan_payment ==
            calculate_monthly_payment(loan_amount, annual_interest_rate,
                                      term_months)
        existing_debt_payment ==
            calculate_monthly_payment(existing_debt, annual_interest_rate,
                                      term_months)
        total_monthly_payment == new_loan_payment + existing_debt_payment
        dscr == IF total_monthly_payment = 0 THEN 0
                ELSE round_half_even(100 * cash_flow_num,
                                     cash_flow_den * total_monthly_payment)
        total_debt == existing_debt + loan_amount
        revenue_for_ratio == IF annual_revenue > 0 THEN annual_revenue
                             ELSE avg_monthly_revenue * 12
        debt_to_revenue ==
            calculate_debt_to_revenue_ratio(total_debt, revenue_for_ratio)
        \* sum(monthly_deposits[:6]) / 6 and sum(monthly_deposits[6:12]) / 6;
        \* the trend is only defined here when it is a whole number of
        \* hundredths, which round(revenue_trend, 4) leaves alone
        first_half == sum(SubSeq(monthly_deposits, 1, 6))
        second_half == sum(SubSeq(monthly_deposits, 7, 12))
        revenue_trend == IF Len(monthly_deposits) >= 12 /\ first_half > 0
                         THEN exact_hundredths(second_half - first_half,
                                               first_half)
                         ELSE 0
        stability_score ==
            calculate_stability_score(revenue_volatility, business_age_years,
                                      nsf_fees, revenue_trend)
    IN  [metrics |->
            [avg_monthly_revenue |-> avg_monthly_revenue,
             revenue_volatility |-> revenue_volatility,
             avg_monthly_cash_flow |-> round_half_even(cash_flow_num,
                                                       cash_flow_den),
             dscr |-> dscr,
             debt_to_revenue |-> debt_to_revenue,
             annual_revenue |-> revenue_for_ratio,
             net_income |-> net_income,
             stability_score |-> stability_score,
             total_debt |-> total_debt,
             revenue_trend |-> revenue_trend]]

(***************************************************************************)
(* Python strings                                                          *)
(***************************************************************************)
UpperCase == "ABCDEFGHIJKLMNOPQRSTUVWXYZ"

LowerCase == "abcdefghijklmnopqrstuvwxyz"

\* one character of str.lower()
lower_char(c) ==
    IF \E i \in 1..Len(UpperCase) : SubSeq(UpperCase, i, i) = c
    THEN LET i == CHOOSE i \in 1..Len(UpperCase) : SubSeq(UpperCase, i, i) = c
         IN  SubSeq(LowerCase, i, i)
    ELSE c

RECURSIVE lower(_)
\* str.lower()
lower(s) ==
    IF s = "" THEN ""
    ELSE IF Len(s) = 1 THEN lower_char(s)
    ELSE lower(SubSeq(s, 1, Len(s) \div 2))
         \o lower(SubSeq(s, Len(s) \div 2 + 1, Len(s)))

\* "word in s"
contains(s, word) ==
    \E i \in 1..(Len(s) - Len(word) + 1) : SubSeq(s, i, i + Len(word) - 1) = word

\* str.replace(old, new) for a one-character old
replace(s, old, new) ==
    LET replaced[i \in 0..Len(s)] ==
            IF i = 0 THEN ""
            ELSE replaced[i - 1]
                 \o (IF SubSeq(s, i, i) = old THEN new ELSE SubSeq(s, i, i))
    IN  replaced[Len(s)]

\* f"{x:,}" of a float in hundredths: repr digits, so 50000.0 is
\* "50,000.0" and 45333.33 is "45,333.33"
FmtGroupedFloat(x) ==
    (IF x < 0 THEN "-" ELSE "")
    \o Grouped(abs(x) \div 100) \o "."
    \o (IF abs(x) % 10 = 0 THEN ToString((abs(x) % 100) \div 10)
        ELSE TwoDigits(abs(x) % 100))

\* "\n".join(lines)
join_lines(lines) ==
    LET joined[i \in 0..Len(lines)] ==
            IF i = 0 THEN ""
            ELSE IF i = 1 THEN lines[1]
            ELSE joined[i - 1] \o "\n" \o lines[i]
    IN  joined[Len(lines)]

\* [f"- {x}" for x in xs]
bullets(xs) == [i \in DOMAIN xs |-> "- " \o xs[i]]

\* [r for r in reasons if r], the reasons unwrapped
truthy_reasons(reasons) ==
    LET kept == SelectSeq(reasons, LAMBDA r : r # None /\ r # Some(""))
    IN  [i \in DOMAIN kept |-> kept[i][1]]

(***************************************************************************)
(* memo_generator.py: MemoGeneratorAgent                                   *)
(***************************************************************************)
\* __init__: self.client stays None without a key, or when the OpenAI
\* constructor raises
MemoGeneratorAgent(api_key, environment_key, constructor_raises) ==
    LET key == IF api_key # None /\ api_key # Some("") THEN api_key
               ELSE environment_key
    IN  [api_key |-> key,
         model |-> "gpt-4o-mini",
         client |-> IF key # None /\ key # Some("") /\ ~constructor_raises
                    THEN Some("OpenAI") ELSE None]

generate_fallback_memo(business_info, metrics, assessment, recommendation) ==
    LET business_name == get(business_info, "business_name", "Unknown Business")
        industry == get(business_info, "industry", "Unknown")
        \* a missing amount defaults to the int 0, which "{:,}" prints as "0"
        loan_amount == IF "loan_amount" \in DOMAIN business_info
                       THEN FmtGroupedFloat(business_info.loan_amount) ELSE "0"
        avg_revenue == IF "avg_monthly_revenue" \in DOMAIN metrics
                       THEN FmtGroupedFloat(metrics.avg_monthly_revenue) ELSE "0"
        dscr == get(metrics, "dscr", 0)
        risk_level == get(assessment, "risk_level", "UNKNOWN")
        decision == get(recommendation, "decision", "PENDING")
    IN  "CREDIT MEMO - " \o business_name
        \o "\n\nBUSINESS OVERVIEW:\n"
        \o business_name \o " operates in the " \o industry
        \o " sector and is requesting a loan of $" \o loan_amount
        \o ". Based on financial document analysis, the business demonstrates"
        \o " average monthly revenue of $" \o avg_revenue \o "."
        \o "\n\nFINANCIAL ANALYSIS:\n"
        \o "The applicant's Debt Service Coverage Ratio (DSCR) of " \o Fmt2f(dscr)
        \o " " \o (IF dscr >= 125 THEN "meets" ELSE "falls below")
        \o " industry standards for approval. Overall risk assessment indicates "
        \o risk_level \o " risk level. "
        \o (IF risk_level = "LOW"
            THEN "Positive indicators include strong financial metrics and stable operations."
            ELSE "Some concerns identified that require attention.")
        \o "\n\nRECOMMENDATION:\n"
        \o "Based on the comprehensive analysis, the recommendation is to "
        \o replace(decision, "_", " ") \o "."
        \o (IF get(recommendation, "conditions", << >>) # << >>
            THEN "\n\nCONDITIONS:\n"
                 \o join_lines(bullets(recommendation.conditions))
            ELSE "")
        \o (IF get(recommendation, "reasons", << >>) # << >>
            THEN "\n\nREASONS:\n"
                 \o join_lines(bullets(truthy_reasons(recommendation.reasons)))
            ELSE "")

\* a note that leaves the message of the exception out
llm_failure_note_without_message(e) == "\n\n[Note: LLM generation failed]"

\* the text the except branch appends to the fallback memo
llm_failure_note(e) == "\n\n[Note: LLM generation failed: " \o e \o "]"

\* generate, up to the branch on self.client: the decision is computed
\* before any memo text is produced
generate_decision(financial_metrics, risk_assessment) ==
    LET metrics == get(financial_metrics, "metrics", << >>)
        assessment == get(risk_assessment, "risk_assessment", << >>)
        risk_level == get(assessment, "risk_level", "UNKNOWN")
        flags == get(assessment, "flags", << >>)
        dscr == get(metrics, "dscr", 0)
        stability_score == get(metrics, "stability_score", 0)
        revenue_volatility == get(metrics, "revenue_volatility", 0)
    IN  [recommendation |->
            determine_recommendation(risk_level, dscr, stability_score, flags),
         underwriting_score |->
            calculate_underwriting_score(risk_level, dscr, stability_score,
                                         revenue_volatility)]

\* The three ways the branch on self.client ends.  llm is
\*   [kind |-> "no_client"]                  self.client is None
\*   [kind |-> "returned", content |-> c]    create() returned; c is
\*                                           choices[0].message.content
\*   [kind |-> "raised", error |-> e]        the try block raised; e is str(e)
credit_memo_text(business_info, financial_metrics, risk_assessment, decision, llm) ==
    LET metrics == get(financial_metrics, "metrics", << >>)
        assessment == get(risk_assessment, "risk_assessment", << >>)
        fallback == generate_fallback_memo(business_info, metrics, assessment,
                                           decision.recommendation)
    IN  IF llm.kind = "returned" THEN llm.content
        ELSE IF llm.kind = "raised"
        THEN Some(fallback \o llm_failure_note(llm.error))
        ELSE Some(fallback)

generate_return_pending_on_failure(decision, credit_memo, llm) ==
    [credit_memo_output |->
        [credit_memo |-> credit_memo,
         recommendation |-> IF llm.kind = "raised" THEN "PENDING"
                            ELSE decision.recommendation.decision,
         underwriting_score |-> decision.underwriting_score,
         conditions |-> get(decision.recommendation, "conditions", << >>),
         reasons |-> get(decision.recommendation, "reasons", << >>)]]

\* the dict generate returns
generate_return(decision, credit_memo, llm) ==
    [credit_memo_output |->
        [credit_memo |-> credit_memo,
         recommendation |-> decision.recommendation.decision,
         underwriting_score |-> decision.underwriting_score,
         conditions |-> get(decision.recommendation, "conditions", << >>),
         reasons |-> get(decision.recommendation, "reasons", << >>)]]

\* analyze_loan_package: the result compiled after generate returns
compile_result(business_info, financial_metrics, risk_assessment, memo_output) ==
    [status |-> "completed",
     business_info |-> business_info,
     financial_metrics |-> financial_metrics.metrics,
     risk_assessment |-> risk_assessment.risk_assessment,
     credit_memo |-> memo_output.credit_memo_output.credit_memo,
     recommendation |-> memo_output.credit_memo_output.recommendation,
     underwriting_score |-> memo_output.credit_memo_output.underwriting_score,
     conditions |-> get(memo_output.credit_memo_output, "conditions", << >>),
     decline_reasons |-> get(memo_output.credit_memo_output, "reasons", << >>)]

\* what the function of a frame returns once its generate stage has ended
return_after_generate(frame, llm) ==
    LET l == frame.locals
        memo_output ==
            generate_return(l.decision,
                            credit_memo_text(l.business_info, l.financial_metrics,
                                             l.risk_assessment, l.decision, llm),
                            llm)
    IN  IF frame.fn = "generate" THEN memo_output
        ELSE compile_result(l.business_info, l.financial_metrics,
                            l.risk_assessment, memo_output)

(***************************************************************************)
(* Calls in progress.  A frame is one direct call of generate, or one      *)
(* request to a route, which calls analyze_loan_package or quick_score on  *)
(* the shared orchestrator.                                                *)
(*   pc         the statement the call is at: "generate" is the start of   *)
(*              MemoGeneratorAgent.generate, "llm" is inside               *)
(*              client.chat.completions.create, "return" is after return   *)
(*   locals     the local variables (None until assigned)                  *)
(*   llm        how the branch on self.client ended (None until it has)    *)
(*   llm_calls  the number of create() calls this frame has made           *)
(*   response   the HTTP response of a route (None until sent)             *)
(***************************************************************************)
NewFrame(name, position, arguments, variables) ==
    [pc |-> position, fn |-> name, args |-> arguments, locals |-> variables,
     llm |-> None, llm_calls |-> 0, ret |-> None, response |-> None]

\* a direct call of generate(business_info, financial_metrics, risk_assessment)
GenerateFrame(arguments) ==
    NewFrame("generate", "generate", arguments,
             [extracted_data |-> None,
              business_info |-> arguments.business_info,
              financial_metrics |-> arguments.financial_metrics,
              risk_assessment |-> arguments.risk_assessment,
              decision |-> None])

\* a request arriving at POST /analyze (analyze_loan) or POST /quick-score
\* (quick_score_loan); arguments is [route, request]
RouteFrame(arguments) ==
    NewFrame(IF arguments.route = "analyze_loan" THEN "analyze_loan_package"
             ELSE "quick_score",
             "request", arguments,
             [extracted_data |-> None,
              business_info |-> None,
              financial_metrics |-> None,
              risk_assessment |-> None,
              decision |-> None])

\* what choices[0].message.content of a response can be
LlmContents == {Some("Credit memo content"), Some(""), None}

\* str(e) of what the try block around create() can raise
LlmErrors ==
    {"API Error", "Connection error.", "Request timed out.",
     "list index out of range"}

\* the decision computed from metrics kept on the shared agent: those of
\* another call, when another call has left any
Decided_from_shared_metrics(frame) ==
    LET others == {q \in DOMAIN frames :
                      /\ frames[q].args # frame.args
                      /\ frames[q].locals.financial_metrics # None}
        shared == IF others = {} THEN frame.locals.financial_metrics
                  ELSE frames[CHOOSE q \in others : TRUE].locals.financial_metrics
    IN  [frame EXCEPT !.locals.decision =
            generate_decision(shared, frame.locals.risk_assessment)]

\* the frame with its decision computed
Decided(frame) ==
    [frame EXCEPT !.locals.decision =
        generate_decision(frame.locals.financial_metrics,
                          frame.locals.risk_assessment)]

\* the same, with a second create() call made after the first one raised
Returning_after_one_retry(frame, outcome) ==
    [frame EXCEPT !.pc = "return",
                  !.llm = Some(outcome),
                  !.llm_calls = IF outcome.kind = "raised" THEN @ + 1 ELSE @,
                  !.ret = return_after_generate(frame, outcome)]

\* the frame with the branch on self.client ended and its function returned
Returning(frame, outcome) ==
    [frame EXCEPT !.pc = "return",
                  !.llm = Some(outcome),
                  !.ret = return_after_generate(frame, outcome)]

\* generate with self.client None: the else branch, the fallback memo
GenerateWithoutClient ==
    \E r \in DOMAIN frames :
        /\ frames[r].pc = "generate"
        /\ memo_generator.client = None
        /\ frames' = [frames EXCEPT ![r] =
                         Returning(Decided(@), [kind |-> "no_client"])]
        /\ UNCHANGED <<pc, fn, args, ret, memo_generator>>

\* generate with a client: everything up to and including the call of
\* client.chat.completions.create, which blocks until the service answers
GenerateCallsLlm ==
    \E r \in DOMAIN frames :
        /\ frames[r].pc = "generate"
        /\ memo_generator.client # None
        /\ frames' = [frames EXCEPT ![r] =
                         [Decided(@) EXCEPT !.pc = "llm",
                                            !.llm_calls = @ + 1]]
        /\ UNCHANGED <<pc, fn, args, ret, memo_generator>>

\* create() returns a response; generate returns its content as the memo
LlmReturns ==
    \E r \in DOMAIN frames, content \in LlmContents :
        /\ frames[r].pc = "llm"
        /\ frames' = [frames EXCEPT ![r] =
                         Returning(@, [kind |-> "returned",
                                       content |-> content])]
        /\ UNCHANGED <<pc, fn, args, ret, memo_generator>>

\* the try block raises; the except branch builds the fallback memo and
\* appends the failure note
LlmRaises ==
    \E r \in DOMAIN frames, e \in LlmErrors :
        /\ frames[r].pc = "llm"
        /\ frames' = [frames EXCEPT ![r] =
                         Returning(@, [kind |-> "raised", error |-> e])]
        /\ UNCHANGED <<pc, fn, args, ret, memo_generator>>

(***************************************************************************)
(* api/schemas.py and api/routes.py: the transport boundary                *)
(***************************************************************************)
\* the Field constraints of AnalyzeRequest and BankData; a request that
\* fails them is answered 422 before the route function runs
request_valid(request) ==
    /\ request.loan_amount > 0
    /\ request.business_age_years >= 0
    /\ request.annual_interest_rate > 0
    /\ request.annual_interest_rate <= 30
    /\ request.term_months > 0
    /\ request.existing_debt >= 0

route_extracted_data(request) ==
    [bank_data |-> request.bank_data,
     tax_data |-> IF request.tax_data # None THEN request.tax_data[1]
                  ELSE << >>,
     existing_debt |-> request.existing_debt]

route_business_info(request) ==
    [business_name |-> request.business_name,
     industry |-> request.industry,
     loan_amount |-> request.loan_amount,
     annual_interest_rate |-> request.annual_interest_rate,
     term_months |-> request.term_months,
     business_age_years |-> request.business_age_years]

\* orchestrator.py: the loan_request both entry points build
loan_request(business_info) ==
    [loan_amount |-> get(business_info, "loan_amount", 0),
     annual_interest_rate |-> get(business_info, "annual_interest_rate", 8),
     term_months |-> get(business_info, "term_months", 60),
     business_age_years |-> get(business_info, "business_age_years", 0)]

\* orchestrator.py: what the except branch of each entry point returns for
\* an exception whose str() is e
except_return(name, e, business_info) ==
    IF name = "analyze_loan_package"
    THEN [status |-> "failed", error |-> e, business_info |-> business_info]
    ELSE 0

\* a quick score that leaves the revenue volatility out
quick_score_return_without_volatility(financial_metrics, risk_assessment) ==
    LET metrics == financial_metrics.metrics
        assessment == risk_assessment.risk_assessment
    IN  calculate_underwriting_score(assessment.risk_level, metrics.dscr,
                                     metrics.stability_score, 0)

\* quick_score: the score computed after analyze and assess
quick_score_return(financial_metrics, risk_assessment) ==
    LET metrics == financial_metrics.metrics
        assessment == risk_assessment.risk_assessment
    IN  calculate_underwriting_score(assessment.risk_level, metrics.dscr,
                                     metrics.stability_score,
                                     metrics.revenue_volatility)

\* AnalysisResponse, the response_model of POST /analyze: the fields of a
\* completed result that can fail it
analysis_response_valid(result) ==
    /\ result.credit_memo # None
    /\ \A i \in DOMAIN result.decline_reasons : result.decline_reasons[i] # None
    /\ result.risk_assessment.risk_level \in {"LOW", "MODERATE", "HIGH"}
    /\ result.recommendation \in {"APPROVE", "APPROVE_WITH_CONDITIONS",
                                  "CONDITIONAL_APPROVAL", "DECLINE"}
    /\ result.underwriting_score \in 0..100

\* the HTTP response of a route once its orchestrator call has returned
route_response(route, request, result) ==
    IF route = "analyze_loan"
    THEN IF result.status = "failed"
         THEN [status_code |-> 500, detail |-> result.error]
         ELSE IF analysis_response_valid(result)
         THEN [status_code |-> 200, body |-> result]
         ELSE [status_code |-> 500, detail |-> "Internal Server Error"]
    ELSE [status_code |-> 200,
          body |-> [business_name |-> request.business_name,
                    underwriting_score |-> result,
                    status |-> "completed"]]

\* request validation fails: 422, the route function never runs
ValidationRejects ==
    \E r \in DOMAIN frames :
        /\ frames[r].pc = "request"
        /\ ~request_valid(frames[r].args.request)
        /\ frames' = [frames EXCEPT ![r] =
                         [@ EXCEPT !.pc = "responded",
                                   !.response = Some([status_code |-> 422])]]
        /\ UNCHANGED <<pc, fn, args, ret, memo_generator>>

\* the route function builds extracted_data and business_info and calls the
\* orchestrator
RouteCallsOrchestrator ==
    \E r \in DOMAIN frames :
        /\ frames[r].pc = "request"
        /\ request_valid(frames[r].args.request)
        /\ frames' = [frames EXCEPT ![r] =
                         [@ EXCEPT !.pc = "analyze",
                                   !.locals.extracted_data =
                                       route_extracted_data(
                                           frames[r].args.request),
                                   !.locals.business_info =
                                       route_business_info(
                                           frames[r].args.request)]]
        /\ UNCHANGED <<pc, fn, args, ret, memo_generator>>

\* Agent 3 returns the metrics
FinancialAnalysis ==
    \E r \in DOMAIN frames :
        LET l == frames[r].locals
        IN  /\ frames[r].pc = "analyze"
            /\ analyze_exception(l.extracted_data,
                                 loan_request(l.business_info)) = None
            /\ frames' = [frames EXCEPT ![r] =
                             [@ EXCEPT !.pc = "assess",
                                       !.locals.financial_metrics =
                                           analyze(l.extracted_data,
                                                   loan_request(l.business_info))]]
            /\ UNCHANGED <<pc, fn, args, ret, memo_generator>>

\* Agent 3 raises; the except branch of the entry point returns
FinancialAnalysisRaises ==
    \E r \in DOMAIN frames :
        LET l == frames[r].locals
            e == analyze_exception(l.extracted_data,
                                   loan_request(l.business_info))
        IN  /\ frames[r].pc = "analyze"
            /\ e # None
            /\ frames' = [frames EXCEPT ![r] =
                             [@ EXCEPT !.pc = "return",
                                       !.ret = except_return(frames[r].fn, e[1],
                                                             l.business_info)]]
            /\ UNCHANGED <<pc, fn, args, ret, memo_generator>>

\* Agent 4 returns the risk assessment
RiskAssessment ==
    \E r \in DOMAIN frames :
        LET l == frames[r].locals
        IN  /\ frames[r].pc = "assess"
            /\ frames' = [frames EXCEPT ![r] =
                             [@ EXCEPT !.pc = IF frames[r].fn = "quick_score"
                                              THEN "score" ELSE "generate",
                                       !.locals.risk_assessment =
                                           assess(l.financial_metrics,
                                                  l.extracted_data)]]
            /\ UNCHANGED <<pc, fn, args, ret, memo_generator>>

\* quick_score computes the score and returns it
QuickScore ==
    \E r \in DOMAIN frames :
        LET l == frames[r].locals
        IN  /\ frames[r].pc = "score"
            /\ frames' = [frames EXCEPT ![r] =
                             [@ EXCEPT !.pc = "return",
                                       !.ret = quick_score_return(
                                                   l.financial_metrics,
                                                   l.risk_assessment)]]
            /\ UNCHANGED <<pc, fn, args, ret, memo_generator>>

\* the orchestrator call has returned to the route, which responds
RouteResponds ==
    \E r \in DOMAIN frames :
        /\ frames[r].pc = "return"
        /\ frames[r].fn # "generate"
        /\ frames' = [frames EXCEPT ![r] =
                         [@ EXCEPT !.pc = "responded",
                                   !.response =
                                       Some(route_response(
                                                frames[r].args.route,
                                                frames[r].args.request,
                                                frames[r].ret))]]
        /\ UNCHANGED <<pc, fn, args, ret, memo_generator>>

(***************************************************************************)
(* SpecPipeline: one call on the orchestrator, with every way the external *)
(* text-generation call can end                                            *)
(***************************************************************************)
ApiKeys == {None, Some("sk-test")}

\* every MemoGeneratorAgent __init__ can build
Agents ==
    {MemoGeneratorAgent(k, e, c) : k \in ApiKeys, e \in ApiKeys, c \in BOOLEAN}

BusinessInfoInputs ==
    [business_name : {"Acme Bakery"},
     industry : {"Food Service"},
     loan_amount : {5000000, 1234550}]

GenerateMetricsInputs ==
    [avg_monthly_revenue : {4533333},
     dscr : {99, 124, 130, 175},
     revenue_volatility : {10, 41},
     debt_to_revenue : {20, 51},
     avg_monthly_cash_flow : {-1, 1000001},
     revenue_trend : {0},
     stability_score : {60, 85}]

\* generate after analyze and assess, and generate on empty dicts
GenerateInputs ==
    {[business_info |-> b,
      financial_metrics |-> [metrics |-> m],
      risk_assessment |-> assess([metrics |-> m],
                                 [bank_data |-> [nsf_fees |-> n]])] :
        b \in BusinessInfoInputs, m \in GenerateMetricsInputs, n \in {0, 4}}
    \cup {[business_info |-> << >>, financial_metrics |-> << >>,
           risk_assessment |-> << >>]}

\* the call/return variables are not used while frames are
NoCall ==
    /\ pc = "frames"
    /\ fn = None
    /\ args = None
    /\ ret = None

\* deposit series: steady (volatility 0), swinging (0.50), and twelve months
\* whose second half is lower (volatility 0.50, trend -0.40)
DepositInputs ==
    {<< >>,
     <<200000, 200000, 200000>>,
     <<100000, 200000, 300000>>,
     <<250000, 125000, 75000, 100000, 100000, 100000,
       75000, 75000, 75000, 75000, 75000, 75000>>}

WithdrawalInputs == {<<100000, 100000, 100000>>, <<250000, 250000>>}

TaxDataInputs ==
    {None, Some([gross_revenue |-> 3000000, total_expenses |-> 2000000,
                 net_income |-> 1000000, tax_year |-> 2023])}

\* rate and term: 12% or 30% over 2 months, and a term at which
\* math.pow overflows
RateTermInputs ==
    {[annual_interest_rate |-> 12, term_months |-> 2],
     [annual_interest_rate |-> 30, term_months |-> 2],
     [annual_interest_rate |-> 30, term_months |-> 50000]}

\* requests that satisfy every documented bound
BoundedRequests ==
    {[business_name |-> "Acme Bakery",
      industry |-> "Restaurant",
      loan_amount |-> 100000,
      business_age_years |-> 3,
      annual_interest_rate |-> rt.annual_interest_rate,
      term_months |-> rt.term_months,
      bank_data |-> [monthly_deposits |-> d, monthly_withdrawals |-> w,
                     nsf_fees |-> n, average_balance |-> None,
                     months_covered |-> None],
      tax_data |-> t,
      existing_debt |-> e] :
        rt \in RateTermInputs, d \in DepositInputs, w \in WithdrawalInputs,
        n \in {0, 4}, t \in TaxDataInputs, e \in {0, 50000}}

BaseRequest ==
    CHOOSE q \in BoundedRequests :
        /\ q.term_months = 2
        /\ q.annual_interest_rate = 12
        /\ q.bank_data.monthly_deposits = <<100000, 200000, 300000>>
        /\ q.bank_data.monthly_withdrawals = <<100000, 100000, 100000>>
        /\ q.bank_data.nsf_fees = 0
        /\ q.tax_data = None
        /\ q.existing_debt = 0

\* the base request with one documented bound violated
UnboundedRequests ==
    {[BaseRequest EXCEPT !.loan_amount = 0],
     [BaseRequest EXCEPT !.loan_amount = -100000],
     [BaseRequest EXCEPT !.business_age_years = -1],
     [BaseRequest EXCEPT !.annual_interest_rate = 0],
     [BaseRequest EXCEPT !.annual_interest_rate = 60],
     [BaseRequest EXCEPT !.term_months = 0],
     [BaseRequest EXCEPT !.bank_data.nsf_fees = -1],
     [BaseRequest EXCEPT !.existing_debt = -100]}

\* requests the schema accepts whose series are at the edges: an average
\* cash flow a third of a cent below zero, deposits with a negative mean
\* (volatility -2.0 and -4.0), and a DSCR between 1.0 and 1.25 with four
\* NSF fees
SchemaEdgeRequests ==
    {[BaseRequest EXCEPT !.bank_data.monthly_deposits = <<0, 0, 0>>,
                         !.bank_data.monthly_withdrawals = <<1, 0, 0>>],
     [BaseRequest EXCEPT !.bank_data.monthly_deposits =
                             <<-30000, -10000, 10000>>],
     [BaseRequest EXCEPT !.bank_data.monthly_deposits =
                             <<-50000, -10000, 30000>>],
     [BaseRequest EXCEPT !.bank_data.monthly_deposits =
                             <<155000, 155000, 155000>>,
                         !.bank_data.nsf_fees = 4,
                         !.business_age_years = 12]}

RequestInputs == BoundedRequests \cup UnboundedRequests \cup SchemaEdgeRequests

Routes == {"analyze_loan", "quick_score_loan"}

InitPipeline ==
    /\ NoCall
    /\ memo_generator \in Agents
    /\ \/ \E a \in GenerateInputs :
              frames = [r \in {"r1"} |-> GenerateFrame(a)]
       \/ \E a \in [route : Routes, request : RequestInputs] :
              frames = [r \in {"r1"} |-> RouteFrame(a)]

NextPipeline ==
    \/ ValidationRejects
    \/ RouteCallsOrchestrator
    \/ FinancialAnalysis
    \/ FinancialAnalysisRaises
    \/ RiskAssessment
    \/ QuickScore
    \/ GenerateWithoutClient
    \/ GenerateCallsLlm
    \/ LlmReturns
    \/ LlmRaises
    \/ RouteResponds

SpecPipeline == InitPipeline /\ [][NextPipeline]_vars

\* the steps the program takes by itself; LlmReturns and LlmRaises are steps
\* of the external service, which the program can only wait for
ProgramStep ==
    \/ ValidationRejects
    \/ RouteCallsOrchestrator
    \/ FinancialAnalysis
    \/ FinancialAnalysisRaises
    \/ RiskAssessment
    \/ QuickScore
    \/ GenerateWithoutClient
    \/ GenerateCallsLlm
    \/ RouteResponds

\* the pipeline with its own steps always taken when they can be, and no
\* promise that the external service ever answers
SpecPipelineFair ==
    InitPipeline /\ [][NextPipeline]_vars /\ WF_vars(ProgramStep)

(***************************************************************************)
(* SpecService: two requests in progress at once on the one orchestrator   *)
(* of routes.py, their steps interleaved in every order                    *)
(***************************************************************************)
\* an ordinary request, a twelve-month one with debt and NSF fees, one on
\* which math.pow overflows, and one that fails validation
ServiceRequests ==
    {BaseRequest,
     [BaseRequest EXCEPT
         !.bank_data.monthly_deposits =
             <<250000, 125000, 75000, 100000, 100000, 100000,
               75000, 75000, 75000, 75000, 75000, 75000>>,
         !.bank_data.nsf_fees = 4,
         !.existing_debt = 50000],
     [BaseRequest EXCEPT !.annual_interest_rate = 30, !.term_months = 50000],
     [BaseRequest EXCEPT !.term_months = 0]}

InitService ==
    /\ NoCall
    /\ memo_generator \in Agents
    /\ \E a, b \in [route : Routes, request : ServiceRequests] :
           frames = [r \in {"r1", "r2"} |->
                        IF r = "r1" THEN RouteFrame(a) ELSE RouteFrame(b)]

SpecService == InitService /\ [][NextPipeline]_vars

(***************************************************************************)
(* SpecPayment: calculate_monthly_payment on small principals              *)
(***************************************************************************)
\* the largest principal, in cents
MaxPrincipal == 200

\* the longest term, in months, of the calls that return
MaxTerm == 3

\* 0%, 24% and 30% a year
PaymentRates == {0, 24, 30}

\* the exact quotient lies half way between two cents; what the code returns
\* then depends on the binary value of the float it rounds
payment_tie(loan_amount, annual_interest_rate, term_months) ==
    IF loan_amount = 0 \/ term_months = 0 THEN FALSE
    ELSE IF annual_interest_rate = 0
    THEN 2 * (loan_amount % term_months) = term_months
    ELSE LET g == gcd(annual_interest_rate, 1200)
             a == annual_interest_rate \div g
             b == 1200 \div g
             numerator == a * power(a + b, term_months)
             denominator == b * (power(a + b, term_months) - power(b, term_months))
         IN  2 * ((loan_amount * numerator) % denominator) = denominator

\* every principal up to MaxPrincipal and term up to MaxTerm at which the
\* quotient is no tie, and two calls on which math.pow overflows
PaymentInputs ==
    {a \in [loan_amount : 0..MaxPrincipal,
            annual_interest_rate : PaymentRates,
            term_months : 0..MaxTerm] :
        ~payment_tie(a.loan_amount, a.annual_interest_rate, a.term_months)}
    \cup [loan_amount : {1, 100}, annual_interest_rate : {30},
          term_months : {50000}]

InitPayment == InitCall("calculate_monthly_payment", PaymentInputs)

\* calculate_monthly_payment returns its rounded value or raises
CalculateMonthlyPayment ==
    /\ pc = "call"
    /\ fn = "calculate_monthly_payment"
    /\ LET e == monthly_payment_exception(args.loan_amount,
                                          args.annual_interest_rate,
                                          args.term_months)
       IN  IF e # None
           THEN pc' = "raise" /\ ret' = e
           ELSE /\ pc' = "return"
                /\ ret' = calculate_monthly_payment(args.loan_amount,
                                                    args.annual_interest_rate,
                                                    args.term_months)
    /\ UNCHANGED <<fn, args, memo_generator, frames>>

NextPayment == CalculateMonthlyPayment

SpecPayment == InitPayment /\ [][NextPayment]_vars

(***************************************************************************)
(* SpecAnalyze: FinancialAnalyzerAgent.analyze called directly             *)
(***************************************************************************)
\* the deposit series of the requests, an all-zero quarter and an all-zero
\* year
AnalyzeDeposits ==
    DepositInputs
    \cup {<<0, 0, 0>>, <<0, 0, 0, 0, 0, 0, 0, 0, 0, 0, 0, 0>>}

AnalyzeWithdrawals == WithdrawalInputs \cup {<< >>, <<0, 0>>}

\* extracted_data with and without the tax_data key
AnalyzeExtractedData ==
    {[bank_data |-> [monthly_deposits |-> d, monthly_withdrawals |-> w,
                     nsf_fees |-> n],
      existing_debt |-> e] :
        d \in AnalyzeDeposits, w \in AnalyzeWithdrawals, n \in {0, 4},
        e \in {0, 50000}}
    \cup
    {[bank_data |-> [monthly_deposits |-> d, monthly_withdrawals |-> w,
                     nsf_fees |-> n],
      tax_data |-> [gross_revenue |-> 3000000, total_expenses |-> 2000000,
                    net_income |-> 1000000, tax_year |-> 2023],
      existing_debt |-> e] :
        d \in AnalyzeDeposits, w \in AnalyzeWithdrawals, n \in {0, 4},
        e \in {0, 50000}}

\* loan requests: none of the keys, or all four; rate 0 over 3 months is
\* the branch without interest
AnalyzeLoanRequests ==
    {<< >>}
    \cup {[loan_amount |-> p, annual_interest_rate |-> rt.annual_interest_rate,
           term_months |-> rt.term_months, business_age_years |-> y] :
             p \in {0, 100000},
             rt \in RateTermInputs
                    \cup {[annual_interest_rate |-> 0, term_months |-> 3]},
             y \in {0, 3, 12}}

\* an empty loan request takes the defaults 8% over 60 months, which this
\* arithmetic only follows on a debt of 0
AnalyzeInputs ==
    {a \in [extracted_data : AnalyzeExtractedData,
            loan_request : AnalyzeLoanRequests] :
        a.loan_request = << >> => a.extracted_data.existing_debt = 0}

InitAnalyze == InitCall("analyze", AnalyzeInputs)

\* analyze returns its dict or raises
Analyze ==
    /\ pc = "call"
    /\ fn = "analyze"
    /\ LET e == analyze_exception(args.extracted_data, args.loan_request)
       IN  IF e # None
           THEN pc' = "raise" /\ ret' = e
           ELSE /\ pc' = "return"
                /\ ret' = analyze(args.extracted_data, args.loan_request)
    /\ UNCHANGED <<fn, args, memo_generator, frames>>

NextAnalyze == Analyze

SpecAnalyze == InitAnalyze /\ [][NextAnalyze]_vars

(***************************************************************************)
(* SpecSignals: detect_positive_signals on metrics on and next to every    *)
(* threshold it compares against, and on a dict that lacks the keys        *)
(***************************************************************************)
SignalMetricsInputs ==
    [avg_monthly_cash_flow : Around(1000000),
     dscr : {0} \cup Around(125) \cup Around(150) \cup Around(175),
     revenue_volatility : Around(20),
     stability_score : {0, 100} \cup Around(70) \cup Around(80),
     revenue_trend : {-10} \cup Around(0) \cup Around(15),
     debt_to_revenue : Around(30)]

InitSignals ==
    InitCall("detect_positive_signals",
             [metrics : SignalMetricsInputs \cup {<< >>},
              nsf_fees : {0, 1}])

DetectPositiveSignals ==
    /\ pc = "call"
    /\ fn = "detect_positive_signals"
    /\ ret' = detect_positive_signals(args.metrics, args.nsf_fees)
    /\ pc' = "return"
    /\ UNCHANGED <<fn, args, memo_generator, frames>>

NextSignals == DetectPositiveSignals

SpecSignals == InitSignals /\ [][NextSignals]_vars

(***************************************************************************)
(* Properties                                                              *)
(***************************************************************************)
Returned(name) == pc = "return" /\ fn = name

\* number of list positions holding a flag of the given severity
NumSeverity(flags, severity) ==
    Cardinality({i \in DOMAIN flags : flags[i].severity = severity})

Elements(seq) == {seq[i] : i \in DOMAIN seq}

CriticalRule == args.risk_level = "HIGH" /\ NumSeverity(args.flags, "HIGH") >= 2

DscrRule == args.dscr < 100

\* C1: determine_recommendation returns DECLINE if and only if (the tier is
\* HIGH and the flag list holds at least two HIGH-severity flags) or the
\* DSCR is below 1.0, whatever the tier.
C1_DeclineIff ==
    Returned("determine_recommendation") =>
        (ret.decision = "DECLINE" <=> (CriticalRule \/ DscrRule))

\* a LOW-tier application with DSCR 0.99 is declined
C1_Witness ==
    /\ Returned("determine_recommendation")
    /\ args.risk_level = "LOW"
    /\ args.dscr = 99
    /\ args.flags = << >>
    /\ ret.decision = "DECLINE"

\* C2: determine_recommendation returns APPROVE only when the tier is LOW,
\* and then with no conditions and no reasons; for any other tier value,
\* recognised or not, it never returns APPROVE.
C2_ApproveOnlyLow ==
    Returned("determine_recommendation") =>
        (ret.decision = "APPROVE" =>
            /\ args.risk_level = "LOW"
            /\ ret.conditions = << >>
            /\ ret.reasons = << >>)

\* C3: when neither DECLINE rule matches and the tier is HIGH or MODERATE
\* the decision is APPROVE_WITH_CONDITIONS; the decision is always one of
\* APPROVE, APPROVE_WITH_CONDITIONS, DECLINE.
C3_ConditionalWhenNotDeclined ==
    Returned("determine_recommendation") =>
        /\ ret.decision \in {"APPROVE", "APPROVE_WITH_CONDITIONS", "DECLINE"}
        /\ (/\ ~CriticalRule
            /\ ~DscrRule
            /\ args.risk_level \in {"HIGH", "MODERATE"})
           => ret.decision = "APPROVE_WITH_CONDITIONS"

\* a HIGH-tier application with one HIGH flag and DSCR exactly 1.0
C3_Witness ==
    /\ Returned("determine_recommendation")
    /\ args.risk_level = "HIGH"
    /\ NumSeverity(args.flags, "HIGH") = 1
    /\ args.dscr = 100
    /\ ret.decision = "APPROVE_WITH_CONDITIONS"

\* C4: every element of the reasons list is a non-empty string; in a
\* critical decline with DSCR >= 1.0 the DSCR message is absent, not None.
C4_ReasonsAreNonEmptyStrings ==
    Returned("determine_recommendation") =>
        \A i \in DOMAIN ret.reasons :
            /\ ret.reasons[i] # None
            /\ ret.reasons[i][1] # ""

\* C5: the conditions list is non-empty exactly when the decision is
\* APPROVE_WITH_CONDITIONS and the reasons list is non-empty exactly when
\* the decision is DECLINE.
C5_ListsMatchDecision ==
    Returned("determine_recommendation") =>
        /\ ret.conditions # << >> <=> ret.decision = "APPROVE_WITH_CONDITIONS"
        /\ ret.reasons # << >> <=> ret.decision = "DECLINE"

\* a conditional approval on which none of the five specific conditions applies
C5_Witness ==
    /\ Returned("determine_recommendation")
    /\ ret.decision = "APPROVE_WITH_CONDITIONS"
    /\ args.dscr >= 135
    /\ args.stability_score >= 70
    /\ args.flags = << [severity |-> "MEDIUM", flag |-> "DECLINING_REVENUE"] >>
    /\ Len(ret.conditions) = 1
    /\ ret.reasons = << >>

\* the five specific conditions in their documented order, then the generic one
ConditionOrder ==
    << "Require personal guarantee from business owner",
       "Require quarterly financial reporting",
       "Monitor cash flow closely for first 12 months",
       "Reduce loan amount to 80% of request",
       "Establish cash reserve requirement of 3 months expenses",
       "Standard terms with enhanced monitoring" >>

Position(text) == CHOOSE k \in DOMAIN ConditionOrder : ConditionOrder[k] = text

FlagPresent(name) == \E i \in DOMAIN args.flags : args.flags[i].flag = name

ApplicableConditions ==
    {k \in 1..5 :
        \/ k = 1 /\ args.dscr < 135
        \/ k = 2 /\ args.stability_score < 70
        \/ k = 3 /\ FlagPresent("UNSTABLE_REVENUE")
        \/ k = 4 /\ FlagPresent("HIGH_LEVERAGE")
        \/ k = 5 /\ FlagPresent("CASH_FLOW_ISSUES")}

\* C6: for APPROVE_WITH_CONDITIONS the conditions are exactly the applicable
\* ones of the five, each once and in the documented order; the generic
\* condition appears iff none applies, and then alone.
C6_ConditionsExactAndOrdered ==
    (Returned("determine_recommendation")
     /\ ret.decision = "APPROVE_WITH_CONDITIONS") =>
        /\ Elements(ret.conditions) \subseteq Elements(ConditionOrder)
        /\ {Position(c) : c \in Elements(ret.conditions)}
             = IF ApplicableConditions = {} THEN {6} ELSE ApplicableConditions
        /\ \A i, j \in DOMAIN ret.conditions :
               i < j => Position(ret.conditions[i]) < Position(ret.conditions[j])

\* all five specific conditions apply at once
C6_Witness ==
    /\ Returned("determine_recommendation")
    /\ ret.decision = "APPROVE_WITH_CONDITIONS"
    /\ ApplicableConditions = 1..5
    /\ Len(ret.conditions) = 5

\* C7: calculate_underwriting_score returns an integer in [0,100] for every
\* input, in range or not.
C7_UnderwritingScoreInRange ==
    Returned("calculate_underwriting_score") => ret \in 0..100

\* unrecognised tier and extreme negative inputs: the unclamped total is negative
C7_Witness ==
    /\ Returned("calculate_underwriting_score")
    /\ args.risk_level = "UNKNOWN"
    /\ args.dscr = 0 - MaxDscr
    /\ args.stability_score = 0 - MaxStability
    /\ args.revenue_volatility = MaxVolatility
    /\ ret = 0

\* C8: calculate_stability_score returns an integer in [0,100] for every
\* input, in range or not.
C8_StabilityScoreInRange ==
    Returned("calculate_stability_score") => ret \in 0..100

\* negative volatility, age above 10 and a large positive trend: the
\* unclamped total is above 100
C8_Witness ==
    /\ Returned("calculate_stability_score")
    /\ args.revenue_volatility = 0 - MaxVolatility
    /\ args.business_age_years = MaxAge
    /\ args.nsf_fees_count = 0
    /\ args.revenue_trend = MaxTrend
    /\ ret = 100

Flagged(severity, name) ==
    /\ ret # None
    /\ ret[1].severity = severity
    /\ ret[1].flag = name

\* C9: each of the six checks flags on a strict inequality, with a fixed
\* severity and identifier, and returns None otherwise (so never at the
\* threshold itself).
C9_ChecksAreStrict ==
    /\ Returned("check_low_dscr") =>
         IF args.dscr < 125 THEN Flagged("HIGH", "LOW_DSCR") ELSE ret = None
    /\ Returned("check_unstable_revenue") =>
         IF args.volatility > 40 THEN Flagged("MEDIUM", "UNSTABLE_REVENUE")
         ELSE ret = None
    /\ Returned("check_cash_flow_issues") =>
         IF args.nsf_fees > 3 THEN Flagged("HIGH", "CASH_FLOW_ISSUES")
         ELSE ret = None
    /\ Returned("check_high_leverage") =>
         IF args.debt_to_revenue > 50 THEN Flagged("MEDIUM", "HIGH_LEVERAGE")
         ELSE ret = None
    /\ Returned("check_negative_cash_flow") =>
         IF args.avg_monthly_cash_flow < 0
         THEN Flagged("HIGH", "NEGATIVE_CASH_FLOW") ELSE ret = None
    /\ Returned("check_declining_revenue") =>
         IF args.revenue_trend < -10 THEN Flagged("MEDIUM", "DECLINING_REVENUE")
         ELSE ret = None

\* check_low_dscr(1.25) returns None
C9_Witness ==
    /\ Returned("check_low_dscr")
    /\ args.dscr = 125
    /\ ret = None

\* C10: calculate_risk_level is LOW for an empty list, HIGH with at least one
\* HIGH or at least three MEDIUM flags, MODERATE with one or two MEDIUM flags
\* and no HIGH flag, LOW otherwise.
C10_RiskLevelRule ==
    Returned("calculate_risk_level") =>
        LET high == NumSeverity(args.flags, "HIGH")
            medium == NumSeverity(args.flags, "MEDIUM")
        IN  ret = IF args.flags = << >> THEN "LOW"
                  ELSE IF high >= 1 \/ medium >= 3 THEN "HIGH"
                  ELSE IF medium \in 1..2 THEN "MODERATE"
                  ELSE "LOW"

\* three MEDIUM flags and no HIGH flag give HIGH
C10_Witness ==
    /\ Returned("calculate_risk_level")
    /\ NumSeverity(args.flags, "MEDIUM") = 3
    /\ NumSeverity(args.flags, "HIGH") = 0
    /\ ret = "HIGH"

\* the identifiers of the six checks, in the order assess runs them
FlagOrder ==
    << "LOW_DSCR", "UNSTABLE_REVENUE", "CASH_FLOW_ISSUES", "HIGH_LEVERAGE",
       "NEGATIVE_CASH_FLOW", "DECLINING_REVENUE" >>

OrderIndex(name) == CHOOSE k \in DOMAIN FlagOrder : FlagOrder[k] = name

AssessFlags == ret.risk_assessment.flags

\* C11: the flag list assess returns is a subsequence of the fixed order
\* LOW_DSCR, UNSTABLE_REVENUE, CASH_FLOW_ISSUES, HIGH_LEVERAGE,
\* NEGATIVE_CASH_FLOW, DECLINING_REVENUE: every identifier is one of the six,
\* they appear in strictly increasing position of that order, and so each
\* appears at most once.
C11_FlagsInFixedOrder ==
    Returned("assess") =>
        /\ \A i \in DOMAIN AssessFlags :
               \E k \in DOMAIN FlagOrder : FlagOrder[k] = AssessFlags[i].flag
        /\ \A i, j \in DOMAIN AssessFlags :
               i < j => OrderIndex(AssessFlags[i].flag)
                            < OrderIndex(AssessFlags[j].flag)

\* all six checks fire: DSCR 0.99, volatility 0.41, 4 NSF fees, leverage
\* 0.51, cash flow -$0.01, trend -0.11
C11_Witness ==
    /\ Returned("assess")
    /\ Len(AssessFlags) = 6
    /\ AssessFlags[3].flag = "CASH_FLOW_ISSUES"
    /\ AssessFlags[4].flag = "HIGH_LEVERAGE"

\* the frames in which generate has run to its end
GenerateEnded == {r \in DOMAIN frames : frames[r].llm # None}

\* the generate arguments of a frame: the arguments of a direct call, or
\* what analyze and assess make of the request of a route
GenerateArguments(frame) ==
    IF frame.fn = "generate" THEN frame.args
    ELSE LET extracted_data == route_extracted_data(frame.args.request)
             business_info == route_business_info(frame.args.request)
             financial_metrics == analyze(extracted_data,
                                          loan_request(business_info))
         IN  [business_info |-> business_info,
              financial_metrics |-> financial_metrics,
              risk_assessment |-> assess(financial_metrics, extracted_data)]

\* the decision functions applied to generate arguments
ExpectedDecision(arguments) ==
    LET metrics == get(arguments.financial_metrics, "metrics", << >>)
        assessment == get(arguments.risk_assessment, "risk_assessment", << >>)
        risk_level == get(assessment, "risk_level", "UNKNOWN")
        dscr == get(metrics, "dscr", 0)
        stability_score == get(metrics, "stability_score", 0)
    IN  [recommendation |->
            determine_recommendation(risk_level, dscr, stability_score,
                                     get(assessment, "flags", << >>)),
         underwriting_score |->
            calculate_underwriting_score(risk_level, dscr, stability_score,
                                         get(metrics, "revenue_volatility", 0))]

\* the structured part of what a frame returned
Structured(frame) ==
    IF frame.fn = "generate"
    THEN [recommendation |-> frame.ret.credit_memo_output.recommendation,
          underwriting_score |-> frame.ret.credit_memo_output.underwriting_score,
          conditions |-> frame.ret.credit_memo_output.conditions,
          reasons |-> frame.ret.credit_memo_output.reasons]
    ELSE [recommendation |-> frame.ret.recommendation,
          underwriting_score |-> frame.ret.underwriting_score,
          conditions |-> frame.ret.conditions,
          reasons |-> frame.ret.decline_reasons]

\* C12: the recommendation, underwriting score, conditions and reasons that
\* generate and analyze_loan_package return are what the decision functions
\* give on the input, whether the external call returned, raised or was never
\* made; and analyze_loan_package reports status "completed" in all three
\* cases.
C12_StructuredResultIgnoresLlm ==
    \A r \in GenerateEnded :
        LET expected == ExpectedDecision(GenerateArguments(frames[r]))
        IN  /\ Structured(frames[r]) =
                   [recommendation |-> expected.recommendation.decision,
                    underwriting_score |-> expected.underwriting_score,
                    conditions |-> expected.recommendation.conditions,
                    reasons |-> expected.recommendation.reasons]
            /\ frames[r].fn = "analyze_loan_package"
                   => frames[r].ret.status = "completed"

\* analyze_loan_package returns a completed DECLINE after the external call
\* raised
C12_Witness ==
    \E r \in GenerateEnded :
        /\ frames[r].fn = "analyze_loan_package"
        /\ frames[r].llm[1].kind = "raised"
        /\ frames[r].ret.status = "completed"
        /\ frames[r].ret.recommendation = "DECLINE"

\* the frames in which the memo came from the fallback branches of generate
FallbackFrames ==
    {r \in GenerateEnded : frames[r].llm[1].kind \in {"no_client", "raised"}}

\* the credit memo a frame returned
ReturnedMemo(frame) ==
    IF frame.fn = "generate" THEN frame.ret.credit_memo_output.credit_memo
    ELSE frame.ret.credit_memo

\* the template filled with the structured facts of a frame
Template(frame) ==
    LET arguments == GenerateArguments(frame)
        metrics == get(arguments.financial_metrics, "metrics", << >>)
        assessment == get(arguments.risk_assessment, "risk_assessment", << >>)
    IN  generate_fallback_memo(arguments.business_info, metrics, assessment,
                               ExpectedDecision(arguments).recommendation)

C14_RaisedCallSignalledInMemo ==
    \A r \in GenerateEnded :
        frames[r].fn = "generate" /\ frames[r].llm[1].kind = "raised"
            => /\ "credit_memo_output" \in DOMAIN frames[r].ret
               /\ "credit_memo" \in DOMAIN frames[r].ret.credit_memo_output
               /\ ReturnedMemo(frames[r]) # None
               /\ LET memo == lower(ReturnedMemo(frames[r])[1])
                  IN  contains(memo, "error") \/ contains(memo, "unable")

\* analyze_loan_package waits inside client.chat.completions.create
AwaitingLlm ==
    \E r \in DOMAIN frames :
        frames[r].fn = "analyze_loan_package" /\ frames[r].pc = "llm"

\* analyze_loan_package has returned a result with status "completed"
PackageCompleted ==
    \E r \in DOMAIN frames :
        /\ frames[r].fn = "analyze_loan_package"
        /\ frames[r].ret # None
        /\ frames[r].ret.status = "completed"

\* C15 as stated: an analysis that waits for the external memo call always
\* gets past it, answered or not, and analyze_loan_package eventually
\* returns a result with status "completed".
C15_AnalysisTerminates == AwaitingLlm ~> PackageCompleted

\* the frames whose orchestrator call has returned
OrchestratorReturned ==
    {r \in DOMAIN frames :
        \/ frames[r].pc = "return"
        \/ frames[r].pc = "responded" /\ request_valid(frames[r].args.request)}

\* C16: whenever analyze_loan_package has completed on a request and
\* quick_score has returned on the same request, the quick score is the
\* underwriting score of the completed analysis.
C16_QuickScoreIsPackageScore ==
    \A r, q \in OrchestratorReturned :
        /\ frames[r].fn = "analyze_loan_package"
        /\ frames[q].fn = "quick_score"
        /\ frames[r].args.request = frames[q].args.request
        /\ frames[r].ret.status = "completed"
        => frames[q].ret = frames[r].ret.underwriting_score

\* both entry points have returned on the twelve-month request, with a score
\* that is not 0
C16_Witness ==
    \E r, q \in OrchestratorReturned :
        /\ frames[r].fn = "analyze_loan_package"
        /\ frames[q].fn = "quick_score"
        /\ frames[r].args.request = frames[q].args.request
        /\ Len(frames[r].args.request.bank_data.monthly_deposits) = 12
        /\ frames[r].ret.status = "completed"
        /\ frames[q].ret = frames[r].ret.underwriting_score
        /\ frames[q].ret > 0

\* the routes that have responded to a request on which analyze raises
FaultedResponses ==
    {r \in DOMAIN frames :
        /\ frames[r].pc = "responded"
        /\ request_valid(frames[r].args.request)
        /\ analyze_exception(
               route_extracted_data(frames[r].args.request),
               loan_request(route_business_info(frames[r].args.request))) # None}

\* C17 as stated: when the deterministic pipeline raises, either entry point
\* answers with a failure that carries the description of the fault, never
\* with status "completed" and a score.
C17_FaultSurfacesAsFailure ==
    \A r \in FaultedResponses :
        LET response == frames[r].response[1]
            e == analyze_exception(
                     route_extracted_data(frames[r].args.request),
                     loan_request(route_business_info(frames[r].args.request)))
        IN  /\ response.status_code >= 500
            /\ response.detail = e[1]

\* the input bounds the request documentation states
documented_bounds(request) ==
    /\ request.loan_amount > 0
    /\ request.business_age_years >= 0
    /\ request.annual_interest_rate > 0
    /\ request.annual_interest_rate <= 30
    /\ request.term_months > 0
    /\ request.bank_data.nsf_fees >= 0
    /\ request.existing_debt >= 0

\* C18 as stated: a request that violates a documented bound never gets past
\* validation: the only thing that happens to it is the 422 response, and no
\* engine has run on it.
C18_OutOfBoundRejected ==
    \A r \in DOMAIN frames :
        /\ frames[r].fn # "generate"
        /\ ~documented_bounds(frames[r].args.request)
        /\ frames[r].pc # "request"
        => /\ frames[r].pc = "responded"
           /\ frames[r].response = Some([status_code |-> 422])
           /\ frames[r].locals.financial_metrics = None
           /\ frames[r].locals.risk_assessment = None

\* what a route answers to a request served alone: the statements of the
\* route and of its entry point one after the other, with llm the way the
\* external call of this request ended
RunAlone(route, request, llm) ==
    LET name == IF route = "analyze_loan" THEN "analyze_loan_package"
                ELSE "quick_score"
        extracted_data == route_extracted_data(request)
        business_info == route_business_info(request)
        e == analyze_exception(extracted_data, loan_request(business_info))
        financial_metrics == analyze(extracted_data, loan_request(business_info))
        risk_assessment == assess(financial_metrics, extracted_data)
        decision == generate_decision(financial_metrics, risk_assessment)
        memo_output ==
            generate_return(decision,
                            credit_memo_text(business_info, financial_metrics,
                                             risk_assessment, decision, llm[1]),
                            llm[1])
    IN  IF ~request_valid(request) THEN [status_code |-> 422]
        ELSE IF e # None
        THEN route_response(route, request,
                            except_return(name, e[1], business_info))
        ELSE IF name = "quick_score"
        THEN route_response(route, request,
                            quick_score_return(financial_metrics,
                                               risk_assessment))
        ELSE route_response(route, request,
                            compile_result(business_info, financial_metrics,
                                           risk_assessment, memo_output))

\* C19: with two requests in progress on the shared orchestrator, in any
\* interleaving of their steps, the response to each request is the response
\* that request gets when it is served alone, and the shared memo agent is
\* one that __init__ built.
C19_ConcurrentRequestsDoNotInterfere ==
    /\ memo_generator \in Agents
    /\ \A r \in DOMAIN frames :
           frames[r].pc = "responded"
               => frames[r].response =
                      Some(RunAlone(frames[r].args.route,
                                    frames[r].args.request, frames[r].llm))

\* two different requests to POST /analyze, in progress together, have both
\* been answered 200, with different underwriting scores
C19_Witness ==
    /\ DOMAIN frames = {"r1", "r2"}
    /\ \A r \in DOMAIN frames :
           /\ frames[r].pc = "responded"
           /\ frames[r].args.route = "analyze_loan"
           /\ frames[r].response[1].status_code = 200
    /\ frames["r1"].args.request # frames["r2"].args.request
    /\ frames["r1"].response[1].body.underwriting_score
           # frames["r2"].response[1].body.underwriting_score

\* calculate_monthly_payment has returned on a principal and a term above 0
\* and a rate that is not negative
PaymentReturned ==
    /\ Returned("calculate_monthly_payment")
    /\ args.loan_amount > 0
    /\ args.term_months > 0
    /\ args.annual_interest_rate >= 0

ZeroSeries(xs) == \A i \in DOMAIN xs : xs[i] = 0

\* analyze was called with empty or all-zero deposits and withdrawals and
\* without tax data
ZeroDataCall ==
    /\ fn = "analyze"
    /\ ZeroSeries(args.extracted_data.bank_data.monthly_deposits)
    /\ ZeroSeries(args.extracted_data.bank_data.monthly_withdrawals)
    /\ "tax_data" \notin DOMAIN args.extracted_data

\* the stability score at volatility 0 and trend 0: the whole volatility
\* weight of 40, three points a year of age up to ten years, and the NSF
\* component
StabilityWithoutRevenue(business_age_years, nsf_fees) ==
    min(100, 40 + 3 * min(business_age_years, 10)
                + (IF nsf_fees = 0 THEN 30
                   ELSE IF nsf_fees <= 2 THEN 20
                   ELSE IF nsf_fees <= 5 THEN 10 ELSE 0))

\* C21 as stated: with empty or all-zero deposit and withdrawal series and no
\* tax data, analyze raises nothing, returns 0.0 for average revenue,
\* volatility, cash flow, DSCR, debt-to-revenue and revenue trend, and a
\* stability score made of the age and NSF components (the volatility
\* component being the constant it is at volatility 0, the trend bonus 0).
C21_ZeroDataResolvesToZero ==
    ZeroDataCall /\ pc # "call" =>
        /\ pc = "return"
        /\ ret.metrics.avg_monthly_revenue = 0
        /\ ret.metrics.revenue_volatility = 0
        /\ ret.metrics.avg_monthly_cash_flow = 0
        /\ ret.metrics.dscr = 0
        /\ ret.metrics.debt_to_revenue = 0
        /\ ret.metrics.revenue_trend = 0
        /\ ret.metrics.stability_score =
               StabilityWithoutRevenue(
                   get(args.loan_request, "business_age_years", 0),
                   args.extracted_data.bank_data.nsf_fees)

\* C22: calculate_underwriting_score is monotonic non-decreasing in DSCR:
\* with tier, stability score and volatility fixed, no smaller DSCR scores
\* higher than the DSCR of the returned call, across 1.0, 1.25, 1.50, 1.75.
C22_ScoreMonotonicInDscr ==
    Returned("calculate_underwriting_score") =>
        \A dscr1 \in DscrInputs :
            dscr1 <= args.dscr =>
                calculate_underwriting_score(args.risk_level, dscr1,
                    args.stability_score, args.revenue_volatility) <= ret

\* a call whose score is strictly above the score of a DSCR below 1.0, one
\* tier below 1.75, and not held at the cap or the floor
C22_Witness ==
    /\ Returned("calculate_underwriting_score")
    /\ args.dscr = 150
    /\ ret > calculate_underwriting_score(args.risk_level, 99,
                 args.stability_score, args.revenue_volatility)
    /\ ret < calculate_underwriting_score(args.risk_level, 175,
                 args.stability_score, args.revenue_volatility)

\* how often the returned list holds one of the given signals
Emitted(signals) == Cardinality({i \in DOMAIN ret : ret[i] \in signals})

\* C23: detect_positive_signals emits at most one signal per tiered group,
\* the highest tier that matches: Excellent/Strong/Adequate DSCR at
\* >= 1.75 / >= 1.5 / >= 1.25 and none below, High/Good business stability
\* at >= 80 / >= 70, Strong revenue growth/Growing revenue at > 0.15 / > 0;
\* the cash flow, volatility, NSF and leverage signals fire on their own
\* conditions whatever the others do.
C23_OneSignalPerTier ==
    Returned("detect_positive_signals") =>
        LET dscr == get(args.metrics, "dscr", 0)
            stability_score == get(args.metrics, "stability_score", 0)
            revenue_trend == get(args.metrics, "revenue_trend", 0)
        IN  /\ Emitted({"Excellent DSCR", "Strong DSCR", "Adequate DSCR"})
                   = (IF dscr >= 125 THEN 1 ELSE 0)
            /\ Emitted({"Excellent DSCR"}) = 1 <=> dscr >= 175
            /\ Emitted({"Strong DSCR"}) = 1 <=> dscr >= 150 /\ dscr < 175
            /\ Emitted({"Adequate DSCR"}) = 1 <=> dscr >= 125 /\ dscr < 150
            /\ Emitted({"High business stability", "Good business stability"})
                   = (IF stability_score >= 70 THEN 1 ELSE 0)
            /\ Emitted({"High business stability"}) = 1
                   <=> stability_score >= 80
            /\ Emitted({"Strong revenue growth", "Growing revenue"})
                   = (IF revenue_trend > 0 THEN 1 ELSE 0)
            /\ Emitted({"Strong revenue growth"}) = 1 <=> revenue_trend > 15
            /\ Emitted({"Strong cash flow reserves"}) = 1
                   <=> get(args.metrics, "avg_monthly_cash_flow", 0) > 1000000
            /\ Emitted({"Strong cash flow reserves"}) <= 1
            /\ Emitted({"Low revenue volatility"}) = 1
                   <=> get(args.metrics, "revenue_volatility", 100) < 20
            /\ Emitted({"Low revenue volatility"}) <= 1
            /\ Emitted({"Clean payment history"}) = 1 <=> args.nsf_fees = 0
            /\ Emitted({"Clean payment history"}) <= 1
            /\ Emitted({"Low financial leverage"}) = 1
                   <=> get(args.metrics, "debt_to_revenue", 100) < 30
            /\ Emitted({"Low financial leverage"}) <= 1

\* a call where every tiered group matches two or three tiers at once and
\* every independent signal fires
C23_Witness ==
    /\ Returned("detect_positive_signals")
    /\ args.metrics # << >>
    /\ args.metrics.dscr >= 175
    /\ args.metrics.stability_score >= 80
    /\ args.metrics.revenue_trend > 15
    /\ Len(ret) = 7

\* C24 as stated: the metrics functions are total; whatever the loan
\* request holds, a call of analyze (and through it of
\* calculate_monthly_payment) returns a value and never raises.
C24_AnalyzeNeverRaises ==
    fn = "analyze" => pc # "raise"

\* the two payments analyze is said to divide the cash flow by, both at the
\* rate and term of the loan request
TotalDebtService ==
    LET annual_interest_rate == get(args.loan_request, "annual_interest_rate", 8)
        term_months == get(args.loan_request, "term_months", 60)
    IN  calculate_monthly_payment(get(args.loan_request, "loan_amount", 0),
                                  annual_interest_rate, term_months)
        + calculate_monthly_payment(args.extracted_data.existing_debt,
                                    annual_interest_rate, term_months)

\* C25: the DSCR analyze reports is round(avgCashFlow / (payment of the new
\* loan + payment of the existing debt), 2), both payments at the same rate
\* and term, and 0.0 when that sum is 0; the average cash flow is the mean
\* deposit minus the mean withdrawal, 0 when either series is empty.
C25_DscrCoversTotalDebtService ==
    Returned("analyze") =>
        LET deposits == args.extracted_data.bank_data.monthly_deposits
            withdrawals == args.extracted_data.bank_data.monthly_withdrawals
            both == deposits # << >> /\ withdrawals # << >>
        IN  ret.metrics.dscr =
                IF TotalDebtService = 0 THEN 0
                ELSE IF ~both THEN 0
                ELSE round_half_even(
                         100 * (sum(deposits) * Len(withdrawals)
                                - sum(withdrawals) * Len(deposits)),
                         Len(deposits) * Len(withdrawals) * TotalDebtService)

\* a returned call with a new loan and existing debt, where the payment on
\* the existing debt is part of the divisor and the DSCR is not 0
C25_Witness ==
    /\ Returned("analyze")
    /\ args.loan_request # << >>
    /\ args.loan_request.loan_amount > 0
    /\ args.extracted_data.existing_debt > 0
    /\ ret.metrics.dscr > 0
    /\ TotalDebtService >
           calculate_monthly_payment(args.loan_request.loan_amount,
                                     args.loan_request.annual_interest_rate,
                                     args.loan_request.term_months)

\* the frame has been through generate: the branch on self.client has ended
GenerateRan(frame) == frame.llm # None

\* C26: the text-generation service is called only after the recommendation
\* and the underwriting score of that analysis are computed, exactly once
\* per generate when a client is configured (never a second time), not at
\* all when none is configured, and never by quick_score.
C26_ServiceCalledOncePerGenerate ==
    \A r \in DOMAIN frames :
        LET frame == frames[r]
        IN  /\ frame.llm_calls \in {0, 1}
            /\ frame.llm_calls = 1 =>
                   /\ frame.locals.decision # None
                   /\ frame.locals.decision.underwriting_score \in 0..100
                   /\ frame.locals.decision.recommendation.decision \in
                          {"APPROVE", "APPROVE_WITH_CONDITIONS", "DECLINE"}
                   /\ memo_generator.client # None
            /\ GenerateRan(frame) =>
                   frame.llm_calls = IF memo_generator.client # None THEN 1
                                     ELSE 0
            /\ memo_generator.client = None => frame.llm_calls = 0
            /\ frame.fn = "quick_score" => frame.llm_calls = 0

\* a package analysis whose one call of the service raised, and that has
\* returned with the fallback memo
C26_Witness ==
    \E r \in DOMAIN frames :
        /\ frames[r].fn = "analyze_loan_package"
        /\ frames[r].pc \in {"return", "responded"}
        /\ frames[r].llm # None
        /\ frames[r].llm[1].kind = "raised"
        /\ frames[r].llm_calls = 1

\* C27 as stated: every score component stays within its documented weight
\* for any input: in calculate_underwriting_score the volatility component
\* in [0, 10] and the stability contribution in [0, 20]; in
\* calculate_stability_score the volatility component in [0, 40], the age
\* component in [0, 30] and the NSF component one of 0, 10, 20, 30.
C27_ComponentsWithinWeights ==
    /\ Returned("calculate_underwriting_score") =>
           /\ underwriting_volatility_score(args.revenue_volatility)
                  \in 0..1000
           /\ underwriting_stability_contribution(args.stability_score)
                  \in 0..2000
    /\ Returned("calculate_stability_score") =>
           /\ stability_volatility_score(args.revenue_volatility) \in 0..4000
           /\ stability_age_score(args.business_age_years) \in 0..3000
           /\ stability_nsf_score(args.nsf_fees_count)
                  \in {0, 1000, 2000, 3000}

\* the requests on which analyze_loan_package has returned a completed
\* result
CompletedPackages ==
    {r \in DOMAIN frames :
        /\ frames[r].fn = "analyze_loan_package"
        /\ frames[r].pc \in {"return", "responded"}
        /\ frames[r].ret # None
        /\ frames[r].ret.status = "completed"}

\* the mean deposit minus the mean withdrawal of a request is negative
\* (analyze takes it as 0 when either series is empty)
NegativeAverageCashFlow(request) ==
    LET deposits == request.bank_data.monthly_deposits
        withdrawals == request.bank_data.monthly_withdrawals
    IN  /\ deposits # << >>
        /\ withdrawals # << >>
        /\ sum(deposits) * Len(withdrawals) < sum(withdrawals) * Len(deposits)

C29_LowAndApproveIffNoFlags ==
    \A r \in CompletedPackages :
        LET result == frames[r].ret
            flags == result.risk_assessment.flags
        IN  /\ result.risk_assessment.risk_level = "LOW" <=> flags = << >>
            /\ result.recommendation = "APPROVE" <=> flags = << >>
            /\ result.recommendation = "APPROVE" =>
                   result.financial_metrics.dscr >= 125
            /\ result.financial_metrics.dscr < 100 =>
                   result.risk_assessment.risk_level = "HIGH"

\* a completed analysis with four NSF fees as its only flag: tier HIGH on
\* one HIGH flag, DSCR above 1.25, approved with conditions
C29_Witness ==
    \E r \in CompletedPackages :
        /\ Len(frames[r].ret.risk_assessment.flags) = 1
        /\ has_flag(frames[r].ret.risk_assessment.flags, "CASH_FLOW_ISSUES")
        /\ frames[r].ret.risk_assessment.risk_level = "HIGH"
        /\ frames[r].ret.financial_metrics.dscr >= 125
        /\ frames[r].ret.recommendation = "APPROVE_WITH_CONDITIONS"

\* C30 as stated: for every request the schema accepts, a DECLINE result
\* has an underwriting score of at most 50 and an APPROVE result a score of
\* at least 60.
C30_ScoreConsistentWithDecision ==
    \A r \in CompletedPackages :
        /\ frames[r].ret.recommendation = "DECLINE" =>
               frames[r].ret.underwriting_score <= 50
        /\ frames[r].ret.recommendation = "APPROVE" =>
               frames[r].ret.underwriting_score >= 60

====
